---- MODULE Spec2Model ----
(***************************************************************************)
(* edgex-influx-proxy: the event-to-point pipeline of the three entry      *)
(* points (the app-functions-SDK pipeline function of cmd/main.go, the     *)
(* HTTP server, the MQTT subscriber), with the value-type inference and    *)
(* the origin-to-timestamp conversion they share; and the plotting web     *)
(* server of cmd/webserver, which keeps the readings it receives over MQTT *)
(* in memory and serves them over HTTP.                                    *)
(*                                                                         *)
(* Go strings are sequences of one-character strings.  64-bit integers and *)
(* IEEE-754 doubles are exact: naturals of any size are little-endian      *)
(* sequences of 15-bit limbs (BigNat), an int64 is a sign and a            *)
(* magnitude, a finite double is sign * m * 2^e with m a BigNat.           *)
(***************************************************************************)
EXTENDS Integers, Sequences, FiniteSets, TLC

(***************************************************************************)
(* Arbitrary-size naturals.                                                *)
(***************************************************************************)
BigZero == << >>

\* y, once x has its value: the source computes its values statement by
\* statement, and so does every operator below that names an intermediate
Having(x, y) == IF x = x THEN y ELSE y

\* F of the value of x: x := ...; and then the statements that use x
With(x, F(_)) == Having(x, F(x))

\* limb i of a, 0 beyond its last limb
Limb(a, i) == IF i \in DOMAIN a THEN a[i] ELSE 0

\* drop the most significant limbs that are 0: every BigNat is kept canonical
BigNorm(a) ==
    IF \A i \in DOMAIN a : a[i] = 0 THEN << >>
    ELSE SubSeq(a, 1, CHOOSE i \in DOMAIN a :
                          a[i] # 0 /\ \A j \in (i + 1)..Len(a) : a[j] = 0)

\* for 0 <= n < 2^31
BigFromInt(n) == BigNorm(<<n % 32768, (n \div 32768) % 32768, n \div 1073741824>>)

\* only for values below 2^31
BigToInt(a) == Limb(a, 1) + 32768 * Limb(a, 2) + 1073741824 * Limb(a, 3)

\* a carry enters limb i when a limb below it overflows and every limb between
\* the two is full
BigAdd(a, b) ==
    LET s(i)     == Limb(a, i) + Limb(b, i)
        carry(i) == \E j \in 1..(i - 1) :
                        s(j) >= 32768 /\ \A l \in (j + 1)..(i - 1) : s(l) = 32767
        n        == (IF Len(a) > Len(b) THEN Len(a) ELSE Len(b)) + 1
    IN  BigNorm([i \in 1..n |-> (s(i) + (IF carry(i) THEN 1 ELSE 0)) % 32768])

\* a times the small number s (0 <= s <= 10000), plus the carry c
RECURSIVE BigMulC(_, _, _)
BigMulC(a, s, c) ==
    IF a = << >> THEN BigFromInt(c)
    ELSE LET p == a[1] * s + c
         IN  <<p % 32768>> \o BigMulC(Tail(a), s, p \div 32768)

BigMulSmall(a, s) == BigNorm(BigMulC(a, s, 0))

\* -1, 0, 1 as a < b, a = b, a > b: the most significant limb that differs
BigCmp(a, b) ==
    IF Len(a) < Len(b) THEN -1
    ELSE IF Len(a) > Len(b) THEN 1
    ELSE IF \A i \in DOMAIN a : a[i] = b[i] THEN 0
    ELSE LET i == CHOOSE i \in DOMAIN a :
                      a[i] # b[i] /\ \A j \in (i + 1)..Len(a) : a[j] = b[j]
         IN  IF a[i] < b[i] THEN -1 ELSE 1

BigLess(a, b) == BigCmp(a, b) = -1
BigLeq(a, b) == BigCmp(a, b) # 1

\* a - b for a >= b: limb i borrows when a limb below it is short and every
\* limb between the two is 0
BigSub(a, b) ==
    LET d(i)      == Limb(a, i) - Limb(b, i)
        borrow(i) == \E j \in 1..(i - 1) :
                         d(j) < 0 /\ \A l \in (j + 1)..(i - 1) : d(l) = 0
    IN  BigNorm([i \in 1..Len(a) |->
                    (d(i) - (IF borrow(i) THEN 1 ELSE 0) + 32768) % 32768])

\* long division by the small number d (1 <= d <= 10000), from the most
\* significant limb down: <<quotient limbs (not canonical), remainder>>
RECURSIVE BigDivStep(_, _, _, _)
BigDivStep(a, d, i, rem) ==
    IF i = 0 THEN [q |-> << >>, r |-> rem]
    ELSE LET cur  == rem * 32768 + a[i]
             rest == BigDivStep(a, d, i - 1, cur % d)
         IN  [q |-> Append(rest.q, cur \div d), r |-> rest.r]

BigDivSmall(a, d) == BigNorm(BigDivStep(a, d, Len(a), 0).q)
BigModSmall(a, d) == BigDivStep(a, d, Len(a), 0).r

BigIsOdd(a) == a # << >> /\ a[1] % 2 = 1

\* 2^k for 0 <= k <= 15
SmallPow2(k) ==
    <<1, 2, 4, 8, 16, 32, 64, 128, 256, 512, 1024, 2048, 4096, 8192, 16384, 32768>>[k + 1]

\* a * 2^k: whole limbs, and then k % 15 bits taken from the limb below
BigShl(a, k) ==
    LET w == k \div 15
        s == k % 15
    IN  BigNorm([i \in 1..(Len(a) + w + 1) |->
                    ((Limb(a, i - w) * SmallPow2(s)) % 32768)
                    + (Limb(a, i - w - 1) \div SmallPow2(15 - s))])

\* a div 2^k
BigShr(a, k) ==
    LET w == k \div 15
        s == k % 15
    IN  BigNorm([i \in 1..(Len(a) - w) |->
                    (Limb(a, i + w) \div SmallPow2(s))
                    + ((Limb(a, i + w + 1) % SmallPow2(s)) * SmallPow2(15 - s))])

BigPow2(k) == [i \in 1..(k \div 15 + 1) |-> IF i = k \div 15 + 1 THEN SmallPow2(k % 15) ELSE 0]

\* number of binary digits of the small number n (0 <= n < 2^15)
SmallBitLen(n) ==
    CHOOSE b \in 0..15 : n < SmallPow2(b) /\ (b = 0 \/ n >= SmallPow2(b - 1))

\* number of binary digits of a
BigBitLen(a) ==
    IF a = << >> THEN 0 ELSE 15 * (Len(a) - 1) + SmallBitLen(a[Len(a)])

\* the k low bits of a
BigLowBits(a, k) ==
    BigNorm([i \in 1..(k \div 15 + 1) |->
                IF i <= k \div 15 THEN Limb(a, i) ELSE Limb(a, i) % SmallPow2(k % 15)])

(***************************************************************************)
(* Go strings: sequences of one-character strings.                         *)
(***************************************************************************)
UpperChars == <<"A","B","C","D","E","F","G","H","I","J","K","L","M",
                "N","O","P","Q","R","S","T","U","V","W","X","Y","Z">>
LowerChars == <<"a","b","c","d","e","f","g","h","i","j","k","l","m",
                "n","o","p","q","r","s","t","u","v","w","x","y","z">>
DigitChars == <<"0","1","2","3","4","5","6","7","8","9">>
WhiteSpace == {" ", "\t", "\n", "\r", "\f"}

Range(f) == {f[i] : i \in DOMAIN f}
IndexOf(seq, c) == CHOOSE i \in DOMAIN seq : seq[i] = c

\* unicode.ToLower on one character
LowerChar(c) ==
    IF c \in Range(UpperChars) THEN LowerChars[IndexOf(UpperChars, c)] ELSE c

\* strings.ToLower
ToLower(str) == [i \in DOMAIN str |-> LowerChar(str[i])]

\* strings.ToUpper
UpperChar(c) ==
    IF c \in Range(LowerChars) THEN UpperChars[IndexOf(LowerChars, c)] ELSE c
ToUpper(str) == [i \in DOMAIN str |-> UpperChar(str[i])]

RECURSIVE TrimLeft(_)
TrimLeft(str) ==
    IF str # << >> /\ str[1] \in WhiteSpace THEN TrimLeft(Tail(str)) ELSE str

RECURSIVE TrimRight(_)
TrimRight(str) ==
    IF str # << >> /\ str[Len(str)] \in WhiteSpace
    THEN TrimRight(SubSeq(str, 1, Len(str) - 1)) ELSE str

\* strings.TrimSpace
TrimSpace(str) == TrimRight(TrimLeft(str))

(***************************************************************************)
(* strconv.ParseInt(s, 10, 64).  An int64 is [neg, mag]; err is "nil",     *)
(* "syntax" or "range".                                                    *)
(***************************************************************************)
MaxUint64 == <<32767, 32767, 32767, 32767, 15>>   \* 2^64 - 1
TwoTo63   == <<0, 0, 0, 0, 8>>                     \* 2^63

I64(neg, mag) == [neg |-> neg /\ mag # << >>, mag |-> mag]
I64Zero == I64(FALSE, << >>)

\* the position after the longest run of digits of str that starts at i
DigitsEnd(str, i) ==
    CHOOSE j \in i..(Len(str) + 1) :
        /\ \A k \in i..(j - 1) : str[k] \in Range(DigitChars)
        /\ j = Len(str) + 1 \/ str[j] \notin Range(DigitChars)

\* the digits str[i..j-1], at most four of them, as a small number
SmallDigits(str, i, j) ==
    LET D(p) == IF p >= i THEN IndexOf(DigitChars, str[p]) - 1 ELSE 0
    IN  D(j - 1) + 10 * D(j - 2) + 100 * D(j - 3) + 1000 * D(j - 4)

\* the digits str[i..j-1] as a natural, four digits at a time
RECURSIVE DigitsNat(_, _, _)
DigitsNat(str, i, j) ==
    IF j - i <= 4 THEN BigFromInt(SmallDigits(str, i, j))
    ELSE With(DigitsNat(str, i, j - 4), LAMBDA hi :
             BigAdd(BigMulSmall(hi, 10000), BigFromInt(SmallDigits(str, j - 4, j))))

\* strconv.ParseUint(s, 10, 64): the loop stops with a syntax error at the
\* first character that is no digit, and with a range error as soon as the
\* digits read so far exceed 2^64 - 1, whichever comes first
ParseUint(str) ==
    With(DigitsEnd(str, 1), LAMBDA q :
    With(DigitsNat(str, 1, q), LAMBDA n :
        IF str = << >> THEN [val |-> << >>, err |-> "syntax"]
        ELSE IF BigLess(MaxUint64, n) THEN [val |-> MaxUint64, err |-> "range"]
        ELSE IF q <= Len(str) THEN [val |-> << >>, err |-> "syntax"]
        ELSE [val |-> n, err |-> "nil"]))

\* a conversion that saturates at the bounds of int64 and reports no error
ParseIntSaturating(str) ==
    IF str = << >> THEN [val |-> I64Zero, err |-> "syntax"]
    ELSE With(str[1] = "-", LAMBDA neg :
         With(ParseUint(IF str[1] \in {"+", "-"} THEN Tail(str) ELSE str), LAMBDA u :
             IF u.err = "syntax" THEN [val |-> I64Zero, err |-> "syntax"]
             ELSE IF ~neg /\ ~BigLess(u.val, TwoTo63)
                  THEN [val |-> I64(FALSE, BigSub(TwoTo63, <<1>>)), err |-> "nil"]
             ELSE IF neg /\ BigLess(TwoTo63, u.val)
                  THEN [val |-> I64(TRUE, TwoTo63), err |-> "nil"]
             ELSE [val |-> I64(neg, u.val), err |-> "nil"]))

ParseInt(str) ==
    IF str = << >> THEN [val |-> I64Zero, err |-> "syntax"]
    ELSE With(str[1] = "-", LAMBDA neg :
         With(ParseUint(IF str[1] \in {"+", "-"} THEN Tail(str) ELSE str), LAMBDA u :
             IF u.err = "syntax" THEN [val |-> I64Zero, err |-> "syntax"]
             ELSE IF ~neg /\ ~BigLess(u.val, TwoTo63)
                  THEN [val |-> I64(FALSE, BigSub(TwoTo63, <<1>>)), err |-> "range"]
             ELSE IF neg /\ BigLess(TwoTo63, u.val)
                  THEN [val |-> I64(TRUE, TwoTo63), err |-> "range"]
             ELSE [val |-> I64(neg, u.val), err |-> "nil"]))

(***************************************************************************)
(* IEEE-754 binary64.  A finite double is sign * m * 2^e, kept canonical   *)
(* (m odd, or m = 0 and e = 0); the other kinds are "inf" and "nan".       *)
(***************************************************************************)
\* the number of times 2 divides the small number n (0 < n < 2^15)
TwosIn(n) == CHOOSE t \in 0..14 : n % SmallPow2(t) = 0 /\ (n \div SmallPow2(t)) % 2 = 1

\* m * 2^e with every factor 2 of m moved into the exponent
StripTwos(m, e) ==
    IF m = << >> THEN [m |-> << >>, e |-> 0]
    ELSE With(CHOOSE i \in DOMAIN m : m[i] # 0 /\ \A j \in 1..(i - 1) : m[j] = 0, LAMBDA z :
         With(15 * (z - 1) + TwosIn(m[z]), LAMBDA k :
             [m |-> BigShr(m, k), e |-> e + k]))

Finite(neg, m, e) ==
    With(StripTwos(m, e), LAMBDA c :
        [kind |-> "finite", neg |-> neg, m |-> c.m, e |-> c.e])
FloatZero == Finite(FALSE, << >>, 0)
FloatInf(neg) == [kind |-> "inf", neg |-> neg, m |-> << >>, e |-> 0]
FloatNaN == [kind |-> "nan", neg |-> FALSE, m |-> << >>, e |-> 0]

\* The double nearest to sign * (m + s) * 2^e, ties to even, where 0 <= s < 1
\* and sticky says s > 0: 53 significant bits, or fewer below 2^-1022
\* (subnormals), and infinity from 2^1024 on.
RoundToDouble(neg, m, e, sticky) ==
    With(BigBitLen(m) + e, LAMBDA top :
    With(IF top - 53 > -1074 THEN top - 53 ELSE -1074, LAMBDA elow :
    With(elow - e, LAMBDA sh :
        IF sh <= 0 THEN Finite(neg, m, e)
        ELSE With(BigShr(m, sh), LAMBDA q :
             With(BigCmp(BigLowBits(m, sh), BigPow2(sh - 1)), LAMBDA c :
             With(c = 1 \/ (c = 0 /\ (sticky \/ BigIsOdd(q))), LAMBDA up :
             With(IF up THEN BigAdd(q, <<1>>) ELSE q, LAMBDA q1 :
                 IF BigBitLen(q1) + elow > 1024 THEN FloatInf(neg)
                 ELSE Finite(neg, q1, elow))))))))

\* float64(n) of an int64
FloatOfInt(n) == RoundToDouble(n.neg, n.mag, 0, FALSE)

\* divide by 10^k, a digit at a time: <<quotient, whether anything was cut>>
RECURSIVE BigDivPow10(_, _, _)
BigDivPow10(a, k, cut) ==
    IF k = 0 \/ (a = << >> /\ cut) THEN [q |-> a, cut |-> cut]
    ELSE IF k >= 4
         THEN BigDivPow10(BigDivSmall(a, 10000), k - 4, cut \/ BigModSmall(a, 10000) # 0)
    ELSE BigDivPow10(BigDivSmall(a, 10), k - 1, cut \/ BigModSmall(a, 10) # 0)

RECURSIVE BigMulPow10(_, _)
BigMulPow10(a, k) ==
    IF k = 0 \/ a = << >> THEN a
    ELSE IF k >= 4 THEN BigMulPow10(BigMulSmall(a, 10000), k - 4)
    ELSE BigMulPow10(BigMulSmall(a, 10), k - 1)

\* the double nearest to sign * m / 10^k: the quotient is taken with 64 bits
\* more than m / 10^k has, so that rounding sees every bit it needs
FloatDivPow10(neg, m, k) ==
    IF m = << >> THEN Finite(neg, << >>, 0)
    ELSE With(64 + 4 * k, LAMBDA sh :
         With(BigDivPow10(BigShl(m, sh), k, FALSE), LAMBDA d :
             RoundToDouble(neg, d.q, 0 - sh, d.cut)))

\* x / 10^k for a double x that holds an integer (x.e >= 0), as float64(n) does
FloatDivByPow10(x, k) == FloatDivPow10(x.neg, BigShl(x.m, x.e), k)

\* x * 10^k for a finite double x
FloatMulPow10(x, k) ==
    With(BigMulPow10(x.m, k), LAMBDA m : RoundToDouble(x.neg, m, x.e, FALSE))

\* math.Floor of a finite double
FloatFloor(x) ==
    IF x.e >= 0 THEN x
    ELSE With(BigShr(x.m, 0 - x.e), LAMBDA q :
         With(BigLowBits(x.m, 0 - x.e) # << >>, LAMBDA frac :
             IF x.neg /\ frac THEN Finite(TRUE, BigAdd(q, <<1>>), 0)
             ELSE Finite(x.neg, q, 0)))

\* x - y of finite doubles
FloatSub(x, y) ==
    With(IF x.e < y.e THEN x.e ELSE y.e, LAMBDA e :
    With(BigShl(x.m, x.e - e), LAMBDA a :
    With(BigShl(y.m, y.e - e), LAMBDA b :
    With(IF x.neg # y.neg THEN x.neg
         ELSE IF BigLeq(b, a) THEN x.neg /\ a # b ELSE ~x.neg, LAMBDA neg :
    With(IF x.neg # y.neg THEN BigAdd(a, b)
         ELSE IF BigLeq(b, a) THEN BigSub(a, b) ELSE BigSub(b, a), LAMBDA m :
        RoundToDouble(neg, m, e, FALSE))))))

\* int64(x) of a finite double below 2^63 in magnitude: truncation to zero
IntOfFloat(x) ==
    IF x.e >= 0 THEN I64(x.neg, BigShl(x.m, x.e))
    ELSE I64(x.neg, BigShr(x.m, 0 - x.e))

(***************************************************************************)
(* strconv.ParseFloat(s, 64) on decimal numerals (the syntax every Go      *)
(* release accepts): [sign] digits [. digits] [e [sign] digits], "inf",    *)
(* "infinity" and "nan".  The result is the correctly rounded double.      *)
(***************************************************************************)
DigitVal(c) == IndexOf(DigitChars, c) - 1

\* a decimal exponent, capped as readFloat caps it (e < 10000 while it grows)
RECURSIVE ExpValue(_, _, _, _)
ExpValue(str, i, j, n) ==
    IF i >= j THEN n
    ELSE ExpValue(str, i + 1, j, IF n < 10000 THEN n * 10 + DigitVal(str[i]) ELSE n)

DecimalToDouble(neg, mant, dexp) ==
    IF mant = << >> THEN [val |-> Finite(neg, << >>, 0), err |-> "nil"]
    ELSE IF dexp > 310 THEN [val |-> FloatInf(neg), err |-> "range"]
    ELSE IF dexp < -400 THEN [val |-> Finite(neg, << >>, 0), err |-> "nil"]
    ELSE With(IF dexp >= 0 THEN RoundToDouble(neg, BigMulPow10(mant, dexp), 0, FALSE)
              ELSE FloatDivPow10(neg, mant, 0 - dexp), LAMBDA f :
             [val |-> f, err |-> IF f.kind = "inf" THEN "range" ELSE "nil"])

ParseFloat(str) ==
    LET neg    == str # << >> /\ str[1] = "-"
        body   == IF str # << >> /\ str[1] \in {"+", "-"} THEN Tail(str) ELSE str
        low    == ToLower(body)
        intEnd == DigitsEnd(body, 1)
        hasDot == intEnd <= Len(body) /\ body[intEnd] = "."
        frStart == IF hasDot THEN intEnd + 1 ELSE intEnd
        frEnd  == DigitsEnd(body, frStart)
        nDigits == (intEnd - 1) + (frEnd - frStart)
        mant   == BigAdd(BigMulPow10(DigitsNat(body, 1, intEnd), frEnd - frStart),
                         DigitsNat(body, frStart, frEnd))
        hasExp == frEnd <= Len(body) /\ body[frEnd] \in {"e", "E"}
        eNeg   == hasExp /\ frEnd + 1 <= Len(body) /\ body[frEnd + 1] = "-"
        eStart == IF hasExp /\ frEnd + 1 <= Len(body) /\ body[frEnd + 1] \in {"+", "-"}
                  THEN frEnd + 2 ELSE frEnd + 1
        eEnd   == IF hasExp THEN DigitsEnd(body, eStart) ELSE frEnd
        e      == IF hasExp THEN ExpValue(body, eStart, eEnd, 0) ELSE 0
        dexp   == (IF eNeg THEN 0 - e ELSE e) - (frEnd - frStart)
        syntax == [val |-> FloatZero, err |-> "syntax"]
    IN  IF low \in {<<"i","n","f">>, <<"i","n","f","i","n","i","t","y">>}
            THEN [val |-> FloatInf(neg), err |-> "nil"]
        ELSE IF ToLower(str) = <<"n","a","n">> THEN [val |-> FloatNaN, err |-> "nil"]
        ELSE IF nDigits = 0 THEN syntax
        ELSE IF hasExp /\ eEnd = eStart THEN syntax
        ELSE IF eEnd # Len(body) + 1 THEN syntax
        ELSE DecimalToDouble(neg, mant, dexp)

(***************************************************************************)
(* base64.StdEncoding.DecodeString and the big-endian IEEE-754 decoding.   *)
(***************************************************************************)
Base64Chars == UpperChars \o LowerChars \o DigitChars \o <<"+", "/">>

RECURSIVE DropNewlines(_)
DropNewlines(str) ==
    IF str = << >> THEN << >>
    ELSE IF str[1] \in {"\n", "\r"} THEN DropNewlines(Tail(str))
    ELSE <<str[1]>> \o DropNewlines(Tail(str))

\* the bytes of one quantum of n (2..4) data characters
QuantumBytes(q, n) ==
    LET v(i) == IF i <= n THEN IndexOf(Base64Chars, q[i]) - 1 ELSE 0
        w    == v(1) * 262144 + v(2) * 4096 + v(3) * 64 + v(4)
        b    == <<w \div 65536, (w \div 256) % 256, w % 256>>
    IN  SubSeq(b, 1, n - 1)

RECURSIVE DecodeQuanta(_)
DecodeQuanta(str) ==
    IF str = << >> THEN [ok |-> TRUE, bytes |-> << >>]
    ELSE LET q    == SubSeq(str, 1, 4)
             last == Len(str) = 4
             n    == IF last /\ q[4] = "=" THEN (IF q[3] = "=" THEN 2 ELSE 3) ELSE 4
             good == \A i \in 1..n : q[i] \in Range(Base64Chars)
             rest == DecodeQuanta(SubSeq(str, 5, Len(str)))
         IN  IF ~good \/ ~rest.ok THEN [ok |-> FALSE, bytes |-> << >>]
             ELSE [ok |-> TRUE, bytes |-> QuantumBytes(q, n) \o rest.bytes]

Base64Decode(str) ==
    LET clean == DropNewlines(str)
    IN  IF Len(clean) % 4 # 0 THEN [ok |-> FALSE, bytes |-> << >>]
        ELSE DecodeQuanta(clean)

\* math.Float32frombits(binary.BigEndian.Uint32(b)), widened to float64
Float32frombits(b) ==
    LET neg  == b[1] >= 128
        ex   == (b[1] % 128) * 2 + b[2] \div 128
        frac == (b[2] % 128) * 65536 + b[3] * 256 + b[4]
    IN  IF ex = 255 THEN (IF frac = 0 THEN FloatInf(neg) ELSE FloatNaN)
        ELSE IF ex = 0 THEN Finite(neg, BigFromInt(frac), -149)
        ELSE Finite(neg, BigFromInt(8388608 + frac), ex - 150)

\* math.Float64frombits(binary.BigEndian.Uint64(b)): the fraction is the low
\* four bits of b[2] and the six bytes after it
Float64frombits(b) ==
    With(b[1] >= 128, LAMBDA neg :
    With((b[1] % 128) * 16 + b[2] \div 16, LAMBDA ex :
    With(BigAdd(BigShl(BigFromInt((b[2] % 16) * 65536 + b[3] * 256 + b[4]), 32),
                BigAdd(BigShl(BigFromInt(b[5] * 256 + b[6]), 16),
                       BigFromInt(b[7] * 256 + b[8]))), LAMBDA frac :
        IF ex = 2047 THEN (IF frac = << >> THEN FloatInf(neg) ELSE FloatNaN)
        ELSE IF ex = 0 THEN Finite(neg, frac, -1074)
        ELSE Finite(neg, BigAdd(BigPow2(52), frac), ex - 1075))))

(***************************************************************************)
(* parseValueType: the four results (typeStr, boolVal, floatVal, intVal).  *)
(* intVal is assigned by the ParseInt call whatever its error, so a value  *)
(* out of the int64 range leaves the clamped number in that slot.          *)
(***************************************************************************)
boolType   == "boolType"
intType    == "intType"
floatType  == "floatType"
stringType == "stringType"

Parsed(t, b, f, n) == [typeStr |-> t, boolVal |-> b, floatVal |-> f, intVal |-> n]

\* the same checks without strings.ToLower
ParseBoolIntNoLower(valueStr) ==
    With(TrimSpace(valueStr), LAMBDA fixedStr :
        IF fixedStr = <<"t","r","u","e">> THEN Parsed(boolType, TRUE, FloatZero, I64Zero)
        ELSE IF fixedStr = <<"f","a","l","s","e">> THEN Parsed(boolType, FALSE, FloatZero, I64Zero)
        ELSE With(ParseInt(fixedStr), LAMBDA pi :
             IF pi.err = "nil" THEN Parsed(intType, FALSE, FloatZero, pi.val)
             ELSE Parsed("none", FALSE, FloatZero, pi.val)))

\* the boolean and the integer checks, the same in every copy of the function;
\* typeStr "none" when neither decides
ParseBoolInt(valueStr) ==
    With(TrimSpace(ToLower(valueStr)), LAMBDA fixedStr :
        IF fixedStr = <<"t","r","u","e">> THEN Parsed(boolType, TRUE, FloatZero, I64Zero)
        ELSE IF fixedStr = <<"f","a","l","s","e">> THEN Parsed(boolType, FALSE, FloatZero, I64Zero)
        ELSE With(ParseInt(fixedStr), LAMBDA pi :
             IF pi.err = "nil" THEN Parsed(intType, FALSE, FloatZero, pi.val)
             ELSE Parsed("none", FALSE, FloatZero, pi.val)))

\* a base64 policy whose boolean check does not lower-case
parseValueTypeNoLower(valueStr) ==
    With(ParseBoolIntNoLower(valueStr), LAMBDA p :
        IF p.typeStr # "none" THEN p
        ELSE With(Base64Decode(valueStr), LAMBDA data :
             IF data.ok /\ Len(data.bytes) = 4
                 THEN Parsed(floatType, FALSE, Float32frombits(data.bytes), p.intVal)
             ELSE IF data.ok /\ Len(data.bytes) = 8
                 THEN Parsed(floatType, FALSE, Float64frombits(data.bytes), p.intVal)
             ELSE Parsed(stringType, FALSE, FloatZero, p.intVal)))

\* a base64 check that decodes the lower-cased, trimmed copy
parseValueTypeFixedStr(valueStr) ==
    With(ParseBoolInt(valueStr), LAMBDA p :
        IF p.typeStr # "none" THEN p
        ELSE With(Base64Decode(TrimSpace(ToLower(valueStr))), LAMBDA data :
             IF data.ok /\ Len(data.bytes) = 4
                 THEN Parsed(floatType, FALSE, Float32frombits(data.bytes), p.intVal)
             ELSE IF data.ok /\ Len(data.bytes) = 8
                 THEN Parsed(floatType, FALSE, Float64frombits(data.bytes), p.intVal)
             ELSE Parsed(stringType, FALSE, FloatZero, p.intVal)))

\* cmd/main.go: a float is 4 or 8 base64-encoded bytes of the raw string
parseValueType(valueStr) ==
    With(ParseBoolInt(valueStr), LAMBDA p :
        IF p.typeStr # "none" THEN p
        ELSE With(Base64Decode(valueStr), LAMBDA data :
             IF data.ok /\ Len(data.bytes) = 4
                 THEN Parsed(floatType, FALSE, Float32frombits(data.bytes), p.intVal)
             ELSE IF data.ok /\ Len(data.bytes) = 8
                 THEN Parsed(floatType, FALSE, Float64frombits(data.bytes), p.intVal)
             ELSE Parsed(stringType, FALSE, FloatZero, p.intVal)))

\* the decimal policy with the float rule tried before the integer rule
parseValueTypeDecimalFloatFirst(valueStr) ==
    With(ParseBoolInt(valueStr), LAMBDA p :
        IF p.typeStr = boolType THEN p
        ELSE With(ParseFloat(TrimSpace(ToLower(valueStr))), LAMBDA pf :
             IF pf.err = "nil" THEN Parsed(floatType, FALSE, pf.val, I64Zero)
             ELSE IF p.typeStr # "none" THEN p
             ELSE Parsed(stringType, FALSE, pf.val, p.intVal)))

\* the decimal policy without its last assignment: typeStr keeps its zero
\* value, boolType, when no rule matches
parseValueTypeDecimalNoFallback(valueStr) ==
    With(ParseBoolInt(valueStr), LAMBDA p :
        IF p.typeStr # "none" THEN p
        ELSE With(ParseFloat(TrimSpace(ToLower(valueStr))), LAMBDA pf :
             IF pf.err = "nil" THEN Parsed(floatType, FALSE, pf.val, p.intVal)
             ELSE Parsed(boolType, FALSE, pf.val, p.intVal)))

\* the HTTP server and the MQTT subscriber: a float is a decimal numeral;
\* floatVal is assigned by the ParseFloat call whatever its error
parseValueTypeDecimal(valueStr) ==
    With(ParseBoolInt(valueStr), LAMBDA p :
        IF p.typeStr # "none" THEN p
        ELSE With(ParseFloat(TrimSpace(ToLower(valueStr))), LAMBDA pf :
             IF pf.err = "nil" THEN Parsed(floatType, FALSE, pf.val, p.intVal)
             ELSE Parsed(stringType, FALSE, pf.val, p.intVal)))

(***************************************************************************)
(* The origin-to-timestamp conversion of each entry point, and time.Unix.  *)
(***************************************************************************)
I64OfInt(n) == IF n < 0 THEN I64(TRUE, BigFromInt(0 - n)) ELSE I64(FALSE, BigFromInt(n))
\* only for values below 2^31 in magnitude
I64ToInt(n) == IF n.neg THEN 0 - BigToInt(n.mag) ELSE BigToInt(n.mag)

\* time.Unix(sec, nsec): nsec outside [0, 999999999] is carried into sec
timeUnix(sec, nsec) ==
    LET n  == IF nsec < 0 THEN 0 - ((0 - nsec) \div 1000000000) ELSE nsec \div 1000000000
        s1 == sec + n
        r1 == nsec - n * 1000000000
    IN  IF nsec >= 0 /\ nsec < 1000000000 THEN <<sec, nsec>>
        ELSE IF r1 < 0 THEN <<s1 - 1, r1 + 1000000000>>
        ELSE <<s1, r1>>

\* unixTime := float64(origin) / 10^k; unixTimeSec := math.Floor(unixTime);
\* unixTimeNSec := int64((unixTime - unixTimeSec) * 1e9)
unixTimeOf(origin, k) ==
    With(FloatOfInt(I64OfInt(origin)), LAMBDA asFloat :
    With(FloatDivByPow10(asFloat, k), LAMBDA unixTime :
    With(FloatFloor(unixTime), LAMBDA unixTimeSec :
    With(FloatMulPow10(FloatSub(unixTime, unixTimeSec), 9), LAMBDA scaled :
    With(IntOfFloat(scaled), LAMBDA unixTimeNSec :
        timeUnix(I64ToInt(IntOfFloat(unixTimeSec)), I64ToInt(unixTimeNSec)))))))

\* cmd/main.go divides by float64(time.Second/time.Nanosecond) = 1e9
unixTimeSDK(origin) == unixTimeOf(origin, 9)
\* the HTTP server divides by float64(time.Second/time.Millisecond) = 1e3
unixTimeHTTP(origin) == unixTimeOf(origin, 3)
\* the MQTT subscriber divides by 1000.0
unixTimeMQTT(origin) == unixTimeOf(origin, 3)

(***************************************************************************)
(* One reading to one point.  A Go map is a set of <<key, value>> pairs.   *)
(***************************************************************************)
Modes == {"sdk", "http", "mqtt"}

NilPoint == [nil |-> TRUE]

\* a type switch whose integer case writes the raw string
FieldValueIntAsString(pv, raw) ==
    CASE pv.typeStr = boolType   -> [type |-> "bool",   val |-> pv.boolVal]
      [] pv.typeStr = intType    -> [type |-> "string", val |-> raw]
      [] pv.typeStr = floatType  -> [type |-> "float",  val |-> pv.floatVal]
      [] pv.typeStr = stringType -> [type |-> "string", val |-> raw]

\* a type switch whose string case writes the trimmed, lower-cased copy
FieldValueFixedStr(pv, raw) ==
    CASE pv.typeStr = boolType   -> [type |-> "bool",   val |-> pv.boolVal]
      [] pv.typeStr = intType    -> [type |-> "int",    val |-> pv.intVal]
      [] pv.typeStr = floatType  -> [type |-> "float",  val |-> pv.floatVal]
      [] pv.typeStr = stringType -> [type |-> "string", val |-> TrimSpace(ToLower(raw))]

\* the type switch on readingType that fills fields[reading.Name]
FieldValue(pv, raw) ==
    CASE pv.typeStr = boolType   -> [type |-> "bool",   val |-> pv.boolVal]
      [] pv.typeStr = intType    -> [type |-> "int",    val |-> pv.intVal]
      [] pv.typeStr = floatType  -> [type |-> "float",  val |-> pv.floatVal]
      [] pv.typeStr = stringType -> [type |-> "string", val |-> raw]

FieldsOf(mode, reading) ==
    LET pv == IF mode = "sdk" THEN parseValueType(reading.value)
              ELSE parseValueTypeDecimal(reading.value)
    IN  {<<reading.name, FieldValue(pv, reading.value)>>}

\* the MQTT subscriber's tag map is empty: its "id" entry is commented out
TagsOf(mode, reading) ==
    IF mode = "mqtt" THEN {} ELSE {<<"id", reading.id>>}

TimeOf(mode, reading) ==
    CASE mode = "sdk"  -> unixTimeSDK(reading.origin)
      [] mode = "http" -> unixTimeHTTP(reading.origin)
      [] mode = "mqtt" -> unixTimeMQTT(reading.origin)

\* influx.NewPoint (models.NewPoint of influxdb 1.7): an error for a field
\* whose name is empty or whose float value is NaN or an infinity, and then
\* the point returned is nil
NewPoint(name, tags, fields, t) ==
    LET bad == \E f \in fields :
                   \/ f[1] = ""
                   \/ f[2].type = "float" /\ f[2].val.kind # "finite"
    IN  IF bad THEN [pt |-> NilPoint, err |-> TRUE]
        ELSE [pt |-> [nil |-> FALSE, measurement |-> name, tags |-> tags,
                      fields |-> fields, time |-> t],
              err |-> FALSE]

BuildPoint(mode, reading) ==
    NewPoint(reading.device, TagsOf(mode, reading), FieldsOf(mode, reading),
             TimeOf(mode, reading))

(***************************************************************************)
(* Inputs of the model.                                                    *)
(***************************************************************************)
MaxReq      == 2      \* requests (or MQTT messages) taken in one run
MaxReadings == 2      \* readings of all the events of one run together
MaxParams   == 2      \* parameters of one call of the pipeline function

\* the reading of the spec's end-to-end scenario; one with an empty name, for
\* which NewPoint fails; one whose value the two float policies read apart
ReadingTemp == [device |-> "sensorA", name |-> "temp", id |-> "r1",
                value |-> <<"2","3">>, origin |-> 1000]
ReadingBad  == [device |-> "sensorA", name |-> "", id |-> "r2",
                value |-> <<"a","b","c">>, origin |-> 1001]
ReadingHum  == [device |-> "sensorB", name |-> "hum", id |-> "r3",
                value |-> <<"1",".","5">>, origin |-> 1500]
Readings == {ReadingTemp, ReadingBad, ReadingHum}

SeqsUpTo(S, n) == UNION {[1..k -> S] : k \in 0..n}

Events == SeqsUpTo(Readings, MaxReadings)

\* a parameter of the pipeline function that is no models.Event
NotAnEvent == [isEvent |-> FALSE, event |-> << >>]
Params == {[isEvent |-> TRUE, event |-> ev] : ev \in Events} \cup {NotAnEvent}

RECURSIVE ReadingsIn(_)
ReadingsIn(params) ==
    IF params = << >> THEN 0 ELSE Len(params[1].event) + ReadingsIn(Tail(params))

ParamLists == {ps \in SeqsUpTo(Params, MaxParams) : ReadingsIn(ps) <= MaxReadings}

Methods == {<<"P","O","S","T">>, <<"p","o","s","t">>, <<"G","E","T">>}

PrecisionInputs == {"ns", "", "bogus"}

(***************************************************************************)
(* Configuration and batches.                                              *)
(***************************************************************************)
\* validDBPrecision of the HTTP server's configuration
validDBPrecision(prec) == prec \in {"ns", "us", "ms", "s", ""}

NilBatch == [nil |-> TRUE]

\* influx.NewBatchPoints: "" means "ns"; a precision that is no time.Duration
\* unit is an error, and then the batch returned is nil
NewBatchPoints(prec) ==
    LET unit == IF prec = "" THEN "ns" ELSE prec
    IN  IF unit \in {"ns", "us", "ms", "s", "m", "h"}
        THEN [bp |-> [nil |-> FALSE, points |-> << >>, precision |-> unit], err |-> FALSE]
        ELSE [bp |-> NilBatch, err |-> TRUE]

\* a batch that takes each new point at its front
AddPointFront(bp, pt) == [bp EXCEPT !.points = <<pt>> \o @]

\* bp.AddPoint(pt), called whether or not NewPoint failed
AddPoint(bp, pt) == [bp EXCEPT !.points = Append(@, pt)]

\* the loop over event.Readings from reading k on: the batch, the errors
\* logged, and whether bp.AddPoint panicked on a nil batch.  built[rd] is
\* what NewPoint returns for reading rd.
RECURSIVE AddReadings(_, _, _, _, _)
AddReadings(built, readings, k, bp, errs) ==
    IF k > Len(readings) THEN [bp |-> bp, errs |-> errs, panic |-> FALSE]
    ELSE LET np    == built[readings[k]]
             errs1 == IF np.err THEN Append(errs, [kind |-> "build", k |-> k]) ELSE errs
         IN  IF bp.nil THEN [bp |-> bp, errs |-> errs1, panic |-> TRUE]
             ELSE AddReadings(built, readings, k + 1, AddPoint(bp, np.pt), errs1)

(***************************************************************************)
(* State.  The process is one of the three programs (mode).  slot[r] is    *)
(* one inbound unit of work: an HTTP request, a call of the pipeline       *)
(* function, an MQTT message.                                              *)
(*   hpc     where its handler is: "idle", "ack" (goroutine started, 200   *)
(*           not yet written), "params" (the pipeline function's loop      *)
(*           head), "busy" (the handler itself batches and writes),        *)
(*           "done"                                                        *)
(*   wpc     where its batching and write are: "none", "start", "write"    *)
(*           (batch built), "writing" (inside influxClient.Write), "done"  *)
(*   method  the method of a request refused for its method                *)
(*   writes  the batches handed to influxClient.Write, in order            *)
(*   results what those calls returned, in order                           *)
(* points[rd] is what the process's point construction returns for reading *)
(* rd: a function of the reading alone, tabulated when the process starts. *)
(* wire is what the process has put on the network so far, in order: the   *)
(* 200 responses and the calls of influxClient.Write.                      *)
(* valueStr/inferred and origin/stamp are the argument and the result of   *)
(* one call of parseValueType and of one origin conversion.                *)
(* dataStore, callback, handler and thrown are the state of the plotting   *)
(* web server (cmd/webserver): its map of readings by name, where its MQTT *)
(* message callback is, where its HTTP handlers are and what they have     *)
(* read, and whether the runtime has ended the process with a fatal error. *)
(***************************************************************************)
VARIABLES mode, precision, points, slot, crashed, wire,
          valueStr, inferred, origin, stamp,
          dataStore, callback, handler, thrown

vars == <<mode, precision, points, slot, crashed, wire,
          valueStr, inferred, origin, stamp,
          dataStore, callback, handler, thrown>>

pipeVars == <<mode, precision, points, slot, crashed, wire>>
callVars == <<valueStr, inferred, origin, stamp>>
webVars  == <<dataStore, callback, handler, thrown>>

NotInferred == [by |-> "none", parsed |-> Parsed("none", FALSE, FloatZero, I64Zero),
                field |-> [type |-> "none", val |-> FALSE]]
NoStamp == [by |-> "none", t |-> <<0, 0>>]

NoCall ==
    /\ valueStr = << >>
    /\ inferred = NotInferred
    /\ origin = 0
    /\ stamp = NoStamp

(***************************************************************************)
(* The state of the plotting web server.                                   *)
(***************************************************************************)
MaxMsgs     == 2      \* MQTT messages that the web server takes in one run
MaxStored   == 2      \* readings of all those messages together
MaxHandlers == 2      \* HTTP requests to /data and /plot in one run
MaxNum      == 2      \* the num parameter of /plot is absent or 0..MaxNum

WebNames == {"temp", "hum"}
Handlers == 1..MaxHandlers

\* dataStore[name]: ok is the second result of the map lookup
NoEntry == [ok |-> FALSE, readings |-> << >>]
Entry(readings) == [ok |-> TRUE, readings |-> readings]

IdleCallback == [pc |-> "idle", event |-> << >>, k |-> 0, msgs |-> 0, taken |-> 0]

NotVisited == [visited |-> FALSE, ok |-> FALSE, readings |-> << >>]
IdleHandler == [pc |-> "idle", kind |-> "none", name |-> "", numStr |-> << >>,
                seen |-> [n \in WebNames |-> NotVisited],
                readings |-> << >>, read |-> << >>, status |-> 0]

NoWeb ==
    /\ dataStore = [n \in WebNames |-> NoEntry]
    /\ callback = IdleCallback
    /\ handler = [h \in Handlers |-> IdleHandler]
    /\ thrown = FALSE

Slots == 1..MaxReq

NoResp == [status |-> 0, allow |-> ""]
NoRet  == [returned |-> FALSE, ok |-> FALSE, err |-> "nil"]

IdleSlot == [hpc |-> "idle", wpc |-> "none", method |-> << >>, decoded |-> FALSE,
             event |-> << >>, params |-> << >>, pidx |-> 0, accepted |-> 0,
             bp |-> NilBatch, errs |-> << >>, resp |-> NoResp, ret |-> NoRet,
             writes |-> << >>, results |-> << >>]

\* the HTTP server starts only with a configuration that Validate accepts;
\* cmd/main.go takes InfluxDBDatabasePrecision as it is; the MQTT subscriber
\* always asks for "us"
Init ==
    /\ mode \in Modes
    /\ precision \in CASE mode = "http" -> {p \in PrecisionInputs : validDBPrecision(p)}
                       [] mode = "sdk"  -> PrecisionInputs
                       [] mode = "mqtt" -> {"us"}
    /\ points = [rd \in Readings |-> BuildPoint(mode, rd)]
    /\ slot = [r \in Slots |-> IdleSlot]
    /\ crashed = FALSE
    /\ wire = << >>
    /\ NoCall
    /\ NoWeb

\* the execution unit that runs slot r's batching and write
WriterUnit(r) == IF mode = "http" THEN <<"goroutine", r>> ELSE <<"handler", r>>
HandlerUnit(r) == <<"handler", r>>

RECURSIVE ReadingsTaken(_)
ReadingsTaken(r) == IF r = 0 THEN 0 ELSE Len(slot[r].event) + ReadingsTaken(r - 1)

\* requests are numbered in the order they arrive
Arrives(r) ==
    /\ ~crashed
    /\ slot[r].hpc = "idle"
    /\ IF r = 1 THEN TRUE ELSE slot[r - 1].hpc # "idle"

\* a comparison of the method as it was sent, with no strings.ToUpper
IsPostAsSent(method) == method = <<"P","O","S","T">>

IsPost(method) == ToUpper(method) = <<"P","O","S","T">>

(***************************************************************************)
(* The HTTP server: readingData and the goroutine it starts.               *)
(***************************************************************************)
\* a method other than POST: 405 with Allow: POST, and nothing else
readingDataNotPost(r) ==
    /\ mode = "http" /\ Arrives(r)
    /\ \E m \in Methods :
          /\ ~IsPost(m)
          /\ slot' = [slot EXCEPT ![r].method = m, ![r].hpc = "done",
                                  ![r].resp = [status |-> 405, allow |-> "POST"]]
    /\ UNCHANGED <<mode, precision, points, crashed, wire, callVars, webVars>>

\* a body that json.Decode rejects: 400
readingDataBadBody(r) ==
    /\ mode = "http" /\ Arrives(r)
    /\ \E m \in Methods : IsPost(m)
    /\ slot' = [slot EXCEPT ![r].hpc = "done",
                            ![r].resp = [status |-> 400, allow |-> ""]]
    /\ UNCHANGED <<mode, precision, points, crashed, wire, callVars, webVars>>

\* a handler that calls sendEventToInflux itself, without the go statement
readingDataGoInline(r) ==
    /\ mode = "http" /\ Arrives(r)
    /\ \E m \in Methods : IsPost(m)
    /\ \E ev \in Events :
          /\ ReadingsTaken(MaxReq) + Len(ev) <= MaxReadings
          /\ slot' = [slot EXCEPT ![r].decoded = TRUE,
                                  ![r].event = ev, ![r].accepted = 1,
                                  ![r].wpc = "start", ![r].hpc = "busy"]
    /\ UNCHANGED <<mode, precision, points, crashed, wire, callVars, webVars>>

\* a handler with a pool of one writer: it takes the next event only when no
\* earlier write is outstanding
readingDataGoBounded(r) ==
    /\ mode = "http" /\ Arrives(r)
    /\ \A q \in Slots : slot[q].wpc \in {"none", "done"}
    /\ \E m \in Methods : IsPost(m)
    /\ \E ev \in Events :
          /\ ReadingsTaken(MaxReq) + Len(ev) <= MaxReadings
          /\ slot' = [slot EXCEPT ![r].decoded = TRUE,
                                  ![r].event = ev, ![r].accepted = 1,
                                  ![r].wpc = "start", ![r].hpc = "ack"]
    /\ UNCHANGED <<mode, precision, points, crashed, wire, callVars, webVars>>

\* the event decodes: go sendEventToInflux(influxClient, ptConfig, event)
readingDataGo(r) ==
    /\ mode = "http" /\ Arrives(r)
    /\ \E m \in Methods : IsPost(m)
    /\ \E ev \in Events :
          /\ ReadingsTaken(MaxReq) + Len(ev) <= MaxReadings
          /\ slot' = [slot EXCEPT ![r].decoded = TRUE,
                                  ![r].event = ev, ![r].accepted = 1,
                                  ![r].wpc = "start", ![r].hpc = "ack"]
    /\ UNCHANGED <<mode, precision, points, crashed, wire, callVars, webVars>>

\* a handler that writes the 200 only when the goroutine has ended
readingDataAckWaits(r) ==
    /\ mode = "http" /\ ~crashed
    /\ slot[r].hpc = "ack" /\ slot[r].wpc = "done"
    /\ slot' = [slot EXCEPT ![r].resp = [status |-> 200, allow |-> ""],
                            ![r].hpc = "done"]
    /\ wire' = Append(wire, <<"ack", r>>)
    /\ UNCHANGED <<mode, precision, points, crashed, callVars, webVars>>

\* w.WriteHeader(http.StatusOK), the statement after the go statement
readingDataAck(r) ==
    /\ mode = "http" /\ ~crashed
    /\ slot[r].hpc = "ack"
    /\ slot' = [slot EXCEPT ![r].resp = [status |-> 200, allow |-> ""],
                            ![r].hpc = "done"]
    /\ wire' = Append(wire, <<"ack", r>>)
    /\ UNCHANGED <<mode, precision, points, crashed, callVars, webVars>>

(***************************************************************************)
(* Batching and writing one event: sendEventToInflux, the body of the      *)
(* pipeline function's loop, the else branch of onMessageReceived.         *)
(***************************************************************************)
\* a batching step that ends without a write when the event has no reading
sendEventBatchSkipsEmpty(r) ==
    /\ ~crashed
    /\ slot[r].wpc = "start"
    /\ LET nb   == NewBatchPoints(precision)
           errs == IF nb.err /\ mode = "sdk"
                   THEN Append(slot[r].errs, [kind |-> "batch", k |-> 0])
                   ELSE slot[r].errs
           res  == AddReadings(points, slot[r].event, 1, nb.bp, errs)
       IN  /\ slot' = [slot EXCEPT ![r].bp = res.bp, ![r].errs = res.errs,
                                   ![r].wpc = IF res.panic THEN "panic"
                                              ELSE IF slot[r].event = << >> THEN "done"
                                              ELSE "write"]
           /\ crashed' = res.panic
    /\ UNCHANGED <<mode, precision, points, wire, callVars, webVars>>

\* a batching step on one batch kept for all events: it goes on from the
\* batch that the request before left
sendEventBatchShared(r) ==
    /\ ~crashed
    /\ slot[r].wpc = "start"
    /\ LET nb   == NewBatchPoints(precision)
           errs == IF nb.err /\ mode = "sdk"
                   THEN Append(slot[r].errs, [kind |-> "batch", k |-> 0])
                   ELSE slot[r].errs
           bp0  == IF r > 1 /\ ~slot[r - 1].bp.nil THEN slot[r - 1].bp ELSE nb.bp
           res  == AddReadings(points, slot[r].event, 1, bp0, errs)
       IN  /\ slot' = [slot EXCEPT ![r].bp = res.bp, ![r].errs = res.errs,
                                   ![r].wpc = IF res.panic THEN "panic" ELSE "write"]
           /\ crashed' = res.panic
    /\ UNCHANGED <<mode, precision, points, wire, callVars, webVars>>

\* NewBatchPoints and the loop over the readings.  Only cmd/main.go looks at
\* the error of NewBatchPoints, and it only logs it.
sendEventBatch(r) ==
    /\ ~crashed
    /\ slot[r].wpc = "start"
    /\ LET nb   == NewBatchPoints(precision)
           errs == IF nb.err /\ mode = "sdk"
                   THEN Append(slot[r].errs, [kind |-> "batch", k |-> 0])
                   ELSE slot[r].errs
           res  == AddReadings(points, slot[r].event, 1, nb.bp, errs)
       IN  /\ slot' = [slot EXCEPT ![r].bp = res.bp, ![r].errs = res.errs,
                                   ![r].wpc = IF res.panic THEN "panic" ELSE "write"]
           /\ crashed' = res.panic
    /\ UNCHANGED <<mode, precision, points, wire, callVars, webVars>>

\* a write that waits until the writes of all earlier requests were called
sendEventWriteInArrivalOrder(r) ==
    /\ ~crashed
    /\ slot[r].wpc = "write"
    /\ \A q \in 1..(r - 1) : slot[q].wpc \notin {"start", "write"}
    /\ slot' = [slot EXCEPT ![r].writes = Append(@, slot[r].bp),
                            ![r].wpc = IF slot[r].bp.nil THEN "panic" ELSE "writing"]
    /\ crashed' = slot[r].bp.nil
    /\ wire' = Append(wire, <<"write", r>>)
    /\ UNCHANGED <<mode, precision, points, callVars, webVars>>

\* influxClient.Write(bp) is called; on a nil batch it panics in bp.Points()
sendEventWrite(r) ==
    /\ ~crashed
    /\ slot[r].wpc = "write"
    /\ slot' = [slot EXCEPT ![r].writes = Append(@, slot[r].bp),
                            ![r].wpc = IF slot[r].bp.nil THEN "panic" ELSE "writing"]
    /\ crashed' = slot[r].bp.nil
    /\ wire' = Append(wire, <<"write", r>>)
    /\ UNCHANGED <<mode, precision, points, callVars, webVars>>

\* a write whose error is handed to the caller: status 500, (false, err)
sendEventWrittenSurfaces(r) ==
    /\ ~crashed
    /\ slot[r].wpc = "writing"
    /\ \E res \in {"ok", "err"} :
          slot' = [slot EXCEPT
                     ![r].results = Append(@, res),
                     ![r].errs = IF res = "err"
                                 THEN Append(@, [kind |-> "write", k |-> 0]) ELSE @,
                     ![r].resp = IF res = "err" /\ mode = "http"
                                 THEN [status |-> 500, allow |-> ""] ELSE @,
                     ![r].ret  = IF res = "err" /\ mode = "sdk"
                                 THEN [returned |-> TRUE, ok |-> FALSE, err |-> "write"]
                                 ELSE @,
                     ![r].wpc  = IF mode = "sdk" THEN "none" ELSE "done",
                     ![r].pidx = IF mode = "sdk" THEN @ + 1 ELSE @,
                     ![r].hpc  = CASE mode = "sdk"  -> IF res = "err" THEN "done" ELSE "params"
                                   [] mode = "mqtt" -> "done"
                                   [] mode = "http" -> @]
    /\ UNCHANGED <<mode, precision, points, crashed, wire, callVars, webVars>>

\* influxClient.Write returns, with or without an error; an error is logged.
\* The goroutine ends; the pipeline function goes on to its next parameter;
\* onMessageReceived returns.
sendEventWritten(r) ==
    /\ ~crashed
    /\ slot[r].wpc = "writing"
    /\ \E res \in {"ok", "err"} :
          slot' = [slot EXCEPT
                     ![r].results = Append(@, res),
                     ![r].errs = IF res = "err"
                                 THEN Append(@, [kind |-> "write", k |-> 0]) ELSE @,
                     ![r].wpc  = IF mode = "sdk" THEN "none" ELSE "done",
                     ![r].pidx = IF mode = "sdk" THEN @ + 1 ELSE @,
                     ![r].hpc  = CASE mode = "sdk"  -> "params"
                                   [] mode = "mqtt" -> "done"
                                   [] mode = "http" -> @]
    /\ UNCHANGED <<mode, precision, points, crashed, wire, callVars, webVars>>

(***************************************************************************)
(* cmd/main.go: the pipeline function returned by sendToInfluxDBFunc.      *)
(***************************************************************************)
sendToInfluxDBFunc(r) ==
    /\ mode = "sdk" /\ r = 1 /\ Arrives(r)
    /\ \E ps \in ParamLists :
          slot' = [slot EXCEPT
                     ![r].params = ps,
                     ![r].pidx = 1,
                     ![r].hpc  = IF Len(ps) < 1 THEN "done" ELSE "params",
                     ![r].ret  = IF Len(ps) < 1
                                 THEN [returned |-> TRUE, ok |-> FALSE,
                                       err |-> "No Data Received"]
                                 ELSE @]
    /\ UNCHANGED <<mode, precision, points, crashed, wire, callVars, webVars>>

\* for _, obj := range params: a parameter that is no Event is skipped; after
\* the last one the function returns (true, nil)
sendToInfluxDBNext(r) ==
    /\ mode = "sdk" /\ ~crashed
    /\ slot[r].hpc = "params"
    /\ LET s == slot[r] IN
       slot' = [slot EXCEPT ![r] =
          IF s.pidx > Len(s.params)
          THEN [s EXCEPT !.hpc = "done",
                         !.ret = [returned |-> TRUE, ok |-> TRUE, err |-> "nil"]]
          ELSE IF ~s.params[s.pidx].isEvent
          THEN [s EXCEPT !.pidx = @ + 1]
          ELSE [s EXCEPT !.event = s.params[s.pidx].event, !.accepted = @ + 1,
                         !.hpc = "busy", !.wpc = "start"]]
    /\ UNCHANGED <<mode, precision, points, crashed, wire, callVars, webVars>>

(***************************************************************************)
(* The MQTT subscriber: onMessageReceived, one message after the other.    *)
(***************************************************************************)
\* a subscriber whose call of Write is not in the else branch: the empty
\* batch of a payload that did not decode is written
onMessageUndecodedWrites(r) ==
    /\ mode = "mqtt" /\ Arrives(r)
    /\ IF r = 1 THEN TRUE ELSE slot[r - 1].hpc = "done"
    /\ slot' = [slot EXCEPT ![r].hpc = "busy", ![r].wpc = "write",
                            ![r].bp = NewBatchPoints(precision).bp,
                            ![r].errs = Append(@, [kind |-> "decode", k |-> 0])]
    /\ UNCHANGED <<mode, precision, points, crashed, wire, callVars, webVars>>

\* a payload that json.Unmarshal rejects: the batch made before decoding
\* stays empty, the error is printed, nothing else
onMessageUndecoded(r) ==
    /\ mode = "mqtt" /\ Arrives(r)
    /\ IF r = 1 THEN TRUE ELSE slot[r - 1].hpc = "done"
    /\ slot' = [slot EXCEPT ![r].hpc = "done",
                            ![r].bp = NewBatchPoints(precision).bp,
                            ![r].errs = Append(@, [kind |-> "decode", k |-> 0])]
    /\ UNCHANGED <<mode, precision, points, crashed, wire, callVars, webVars>>

onMessageReceived(r) ==
    /\ mode = "mqtt" /\ Arrives(r)
    /\ IF r = 1 THEN TRUE ELSE slot[r - 1].hpc = "done"
    /\ \E ev \in Events :
          /\ ReadingsTaken(MaxReq) + Len(ev) <= MaxReadings
          /\ slot' = [slot EXCEPT ![r].decoded = TRUE, ![r].event = ev,
                                  ![r].accepted = 1, ![r].hpc = "busy",
                                  ![r].wpc = "start"]
    /\ UNCHANGED <<mode, precision, points, crashed, wire, callVars, webVars>>

Next ==
    \E r \in Slots :
        \/ readingDataNotPost(r)
        \/ readingDataBadBody(r)
        \/ readingDataGo(r)
        \/ readingDataAck(r)
        \/ sendEventBatch(r)
        \/ sendEventWrite(r)
        \/ sendEventWritten(r)
        \/ sendToInfluxDBFunc(r)
        \/ sendToInfluxDBNext(r)
        \/ onMessageUndecoded(r)
        \/ onMessageReceived(r)

Spec == Init /\ [][Next]_vars

\* The Go scheduler runs every runnable goroutine: the handler reaches its
\* WriteHeader, the started goroutine builds its batch and calls Write.
\* Nothing makes a call of Write return.
FairSpec ==
    /\ Spec
    /\ \A r \in Slots : /\ WF_vars(readingDataAck(r))
                        /\ WF_vars(sendEventBatch(r))
                        /\ WF_vars(sendEventWrite(r))

(***************************************************************************)
(* One call of parseValueType followed by the type switch that fills the   *)
(* reading's field, on a raw value drawn from a catalogue: boolean and     *)
(* integer numerals in several spellings, other strings, each with white   *)
(* space around it.                                                        *)
(***************************************************************************)
MaxPad      == 1      \* white space characters on each side of a raw value
MaxSmallInt == 12     \* the integers -MaxSmallInt..MaxSmallInt are written out

RECURSIVE DigitsOf(_)
DigitsOf(n) ==
    IF n < 10 THEN <<DigitChars[n + 1]>>
    ELSE Append(DigitsOf(n \div 10), DigitChars[(n % 10) + 1])

DecimalOf(n) == IF n < 0 THEN <<"-">> \o DigitsOf(0 - n) ELSE DigitsOf(n)

\* <<numeral, the integer it denotes>>
IntSamples ==
    {<<DecimalOf(n), I64OfInt(n)>> : n \in (0 - MaxSmallInt)..MaxSmallInt}
    \cup {<< <<"4","2">>, I64OfInt(42) >>,
          << <<"+","5">>, I64OfInt(5) >>,
          << <<"0","0","7">>, I64OfInt(7) >>,
          << <<"-","0">>, I64Zero >>,
          << <<"9","2","2","3","3","7","2","0","3","6","8","5","4","7","7","5","8","0","7">>,
             I64(FALSE, BigSub(TwoTo63, <<1>>)) >>,
          << <<"-","9","2","2","3","3","7","2","0","3","6","8","5","4","7","7","5","8","0","8">>,
             I64(TRUE, TwoTo63) >>}

\* <<spelling, the boolean it denotes>>
BoolSamples ==
    {<< <<"t","r","u","e">>, TRUE >>, << <<"T","R","U","E">>, TRUE >>,
     << <<"T","r","u","e">>, TRUE >>, << <<"t","R","u","E">>, TRUE >>,
     << <<"f","a","l","s","e">>, FALSE >>, << <<"F","A","L","S","E">>, FALSE >>,
     << <<"F","a","l","s","e">>, FALSE >>}

\* <<base64 text of 4 or 8 bytes, the float those bytes encode>>:
\* 3FC00000 is 1.5f, C0000000 is -2f, 3FF8000000000000 is 1.5
Base64Floats ==
    {<< <<"P","8","A","A","A","A","=","=">>, Finite(FALSE, <<3>>, -1) >>,
     << <<"w","A","A","A","A","A","=","=">>, Finite(TRUE, <<1>>, 1) >>,
     << <<"P","/","g","A","A","A","A","A","A","A","A","=">>, Finite(FALSE, <<3>>, -1) >>}

\* base64 text of 3, 2 and 5 bytes, and text that is no standard base64
Base64Others ==
    {<<"A","A","A","A">>, <<"A","A","A","=">>, <<"A","A","A","A","A","A","A","=">>,
     <<"P","8","A","A","A","A","=">>, <<"P","8","A","A","A","A">>}

\* <<numeral outside the int64 range, the bound strconv.ParseInt clamps it
\* to, the nearest double>>: 2^63, -2^63 - 1 and 2^64
OutOfRangeSamples ==
    {<< <<"9","2","2","3","3","7","2","0","3","6","8","5","4","7","7","5","8","0","8">>,
        I64(FALSE, BigSub(TwoTo63, <<1>>)), Finite(FALSE, <<1>>, 63) >>,
     << <<"-","9","2","2","3","3","7","2","0","3","6","8","5","4","7","7","5","8","0","9">>,
        I64(TRUE, TwoTo63), Finite(TRUE, <<1>>, 63) >>,
     << <<"1","8","4","4","6","7","4","4","0","7","3","7","0","9","5","5","1","6","1","6">>,
        I64(FALSE, BigSub(TwoTo63, <<1>>)), Finite(FALSE, <<1>>, 64) >>}

\* strings that no rule of either policy takes for a boolean or a number
StrSamples ==
    {<< >>, <<"a","b","c">>, <<"1",".","2",".","3">>, <<"4"," ","2">>,
     <<"t","r","u">>, <<"0","x","1","F">>, <<"1","e","9","9","9">>}

OtherSamples ==
    StrSamples \cup {x[1] : x \in Base64Floats} \cup Base64Others
    \cup {<<"1",".","5">>, <<"1","e","3">>}
    \cup {x[1] : x \in OutOfRangeSamples}

PadChars == {" ", "\t"}
Pads == SeqsUpTo(PadChars, MaxPad)

Padded(S) == {l \o c \o r : l \in Pads, c \in S, r \in Pads}

RawValues ==
    Padded({x[1] : x \in IntSamples} \cup {x[1] : x \in BoolSamples} \cup OtherSamples)

\* the process is started, nothing has arrived, nothing is being called
Started ==
    /\ mode \in Modes
    /\ precision = "ns"
    /\ points = << >>
    /\ slot = [r \in Slots |-> IdleSlot]
    /\ crashed = FALSE
    /\ wire = << >>
    /\ NoWeb

InitInfer ==
    /\ Started
    /\ valueStr \in RawValues
    /\ inferred = NotInferred
    /\ origin = 0
    /\ stamp = NoStamp

Inferred(by, pv, raw) == [by |-> by, parsed |-> pv, field |-> FieldValue(pv, raw)]

\* cmd/main.go: readingType, boolVal, floatVal, intVal := parseValueType(...)
\* and the switch on readingType
inferBase64 ==
    /\ mode = "sdk" /\ inferred.by = "none"
    /\ inferred' = Inferred("base64", parseValueType(valueStr), valueStr)
    /\ UNCHANGED <<pipeVars, valueStr, origin, stamp, webVars>>

\* the HTTP server and the MQTT subscriber: the same with their parseValueType
inferDecimal ==
    /\ mode \in {"http", "mqtt"} /\ inferred.by = "none"
    /\ inferred' = Inferred("decimal", parseValueTypeDecimal(valueStr), valueStr)
    /\ UNCHANGED <<pipeVars, valueStr, origin, stamp, webVars>>

NextInfer == inferBase64 \/ inferDecimal

SpecInfer == InitInfer /\ [][NextInfer]_vars

(***************************************************************************)
(* One conversion of a reading's origin to the point's time.               *)
(***************************************************************************)
MaxOrigin == 1500

\* models.Reading.Origin is an int64: origins before the epoch are negative
Origins == (0 - MaxOrigin)..MaxOrigin

InitTime ==
    /\ Started
    /\ valueStr = << >>
    /\ inferred = NotInferred
    /\ origin \in Origins
    /\ stamp = NoStamp

convertSDK ==
    /\ mode = "sdk" /\ stamp.by = "none"
    /\ stamp' = [by |-> "sdk", t |-> unixTimeSDK(origin)]
    /\ UNCHANGED <<pipeVars, valueStr, inferred, origin, webVars>>

convertHTTP ==
    /\ mode = "http" /\ stamp.by = "none"
    /\ stamp' = [by |-> "http", t |-> unixTimeHTTP(origin)]
    /\ UNCHANGED <<pipeVars, valueStr, inferred, origin, webVars>>

convertMQTT ==
    /\ mode = "mqtt" /\ stamp.by = "none"
    /\ stamp' = [by |-> "mqtt", t |-> unixTimeMQTT(origin)]
    /\ UNCHANGED <<pipeVars, valueStr, inferred, origin, webVars>>

NextTime == convertSDK \/ convertHTTP \/ convertMQTT

SpecTime == InitTime /\ [][NextTime]_vars

(***************************************************************************)
(* The plotting web server (cmd/webserver): the MQTT message callback that *)
(* fills dataStore, and the handlers of /data and /plot that read it.  The *)
(* MQTT client calls the callback for one message after the other; every   *)
(* HTTP request is served on a goroutine of its own.  No lock and no       *)
(* channel orders the accesses to dataStore.  The values of the readings   *)
(* stored are numerals, so strconv.ParseFloat in plotData succeeds.        *)
(***************************************************************************)
WebEvents == SeqsUpTo(WebNames, MaxStored)

\* a reading as the web server keeps it: its name, and its place in the
\* order in which the readings arrived
WebReading(name, n) == [name |-> name, seq |-> n]

\* what a read finds in the memory behind the last element of a slice
Garbage == [name |-> "", seq |-> 0]

\* the num parameter of /plot: absent, or a numeral
NumStrs == {<< >>} \cup {DigitsOf(n) : n \in 0..MaxNum}

InitWeb ==
    /\ mode = "web"
    /\ precision = ""
    /\ points = << >>
    /\ slot = [r \in Slots |-> IdleSlot]
    /\ crashed = FALSE
    /\ wire = << >>
    /\ NoCall
    /\ NoWeb

\* the reading that the callback's loop is at
Cur == callback.event[callback.k]

\* json.Unmarshal rejects the payload: the error is printed
webOnMessageUndecoded ==
    /\ mode = "web" /\ ~thrown
    /\ callback.pc = "idle" /\ callback.msgs < MaxMsgs
    /\ callback' = [callback EXCEPT !.msgs = @ + 1]
    /\ UNCHANGED <<pipeVars, callVars, dataStore, handler, thrown>>

\* the payload decodes: for _, reading := range event.Readings
webOnMessageReceived ==
    /\ mode = "web" /\ ~thrown
    /\ callback.pc = "idle" /\ callback.msgs < MaxMsgs
    /\ \E names \in WebEvents :
          /\ callback.taken + Len(names) <= MaxStored
          /\ callback' = [pc    |-> IF names = << >> THEN "idle" ELSE "lookup",
                          event |-> [i \in DOMAIN names |->
                                        WebReading(names[i], callback.taken + i)],
                          k     |-> IF names = << >> THEN 0 ELSE 1,
                          msgs  |-> callback.msgs + 1,
                          taken |-> callback.taken + Len(names)]
    /\ UNCHANGED <<pipeVars, callVars, dataStore, handler, thrown>>

\* if _, ok := dataStore[reading.Name]; !ok
storeLookup ==
    /\ mode = "web" /\ ~thrown
    /\ callback.pc = "lookup"
    /\ callback' = [callback EXCEPT
                      !.pc = IF dataStore[Cur.name].ok THEN "append" ELSE "insert"]
    /\ UNCHANGED <<pipeVars, callVars, dataStore, handler, thrown>>

\* dataStore[reading.Name] = make([]models.Reading, 0): the assignment to the
\* map has begun
storeInsertBegin ==
    /\ mode = "web" /\ ~thrown
    /\ callback.pc = "insert"
    /\ callback' = [callback EXCEPT !.pc = "inserting"]
    /\ UNCHANGED <<pipeVars, callVars, dataStore, handler, thrown>>

\* ... and it is complete
storeInsertEnd ==
    /\ mode = "web" /\ ~thrown
    /\ callback.pc = "inserting"
    /\ dataStore' = [dataStore EXCEPT ![Cur.name] = Entry(<< >>)]
    /\ callback' = [callback EXCEPT !.pc = "append"]
    /\ UNCHANGED <<pipeVars, callVars, handler, thrown>>

\* dataStore[reading.Name] = append(dataStore[reading.Name], reading): the
\* new slice is made and the assignment to the map has begun
storeAppendBegin ==
    /\ mode = "web" /\ ~thrown
    /\ callback.pc = "append"
    /\ callback' = [callback EXCEPT !.pc = "appending"]
    /\ UNCHANGED <<pipeVars, callVars, dataStore, handler, thrown>>

\* ... and it is complete; the loop goes on to the next reading
storeAppendEnd ==
    /\ mode = "web" /\ ~thrown
    /\ callback.pc = "appending"
    /\ dataStore' = [dataStore EXCEPT
                       ![Cur.name] = Entry(Append(dataStore[Cur.name].readings, Cur))]
    /\ callback' = [callback EXCEPT
                      !.pc = IF callback.k = Len(callback.event) THEN "idle" ELSE "lookup",
                      !.k  = IF callback.k = Len(callback.event) THEN 0 ELSE @ + 1]
    /\ UNCHANGED <<pipeVars, callVars, handler, thrown>>

\* an assignment to the map is under way
Writing == callback.pc \in {"inserting", "appending"}

\* What a read of dataStore[name] by another goroutine can return.  A read
\* during the assignment to the same key is a data race: it returns the
\* entry as it was, the entry as it will be, or, for an append, the new
\* length with the old array, whose last element was never written.
ReadOutcomes(name) ==
    IF name \notin WebNames THEN {NoEntry}
    ELSE IF callback.pc = "inserting" /\ Cur.name = name
         THEN {dataStore[name], Entry(<< >>)}
    ELSE IF callback.pc = "appending" /\ Cur.name = name
         THEN {dataStore[name],
               Entry(Append(dataStore[name].readings, Cur)),
               Entry(Append(dataStore[name].readings, Garbage))}
    ELSE {dataStore[name]}

\* requests are numbered in the order in which they arrive
HandlerStarts(h) ==
    /\ mode = "web" /\ ~thrown
    /\ handler[h].pc = "idle"
    /\ IF h = 1 THEN TRUE ELSE handler[h - 1].pc # "idle"

\* GET /data: formatResponse(..., dataStore) is entered
currentData(h) ==
    /\ HandlerStarts(h)
    /\ handler' = [handler EXCEPT ![h].kind = "data", ![h].pc = "marshal"]
    /\ UNCHANGED <<pipeVars, callVars, dataStore, callback, thrown>>

\* json.Marshal(val) goes through the map, in no particular order, and reads
\* one entry; after the last one the response is written
currentDataVisit(h) ==
    /\ mode = "web" /\ ~thrown
    /\ handler[h].pc = "marshal"
    /\ \E n \in WebNames :
          /\ ~handler[h].seen[n].visited
          /\ \E e \in ReadOutcomes(n) :
                LET seen == [handler[h].seen EXCEPT
                               ![n] = [visited |-> TRUE, ok |-> e.ok,
                                       readings |-> e.readings]]
                    last == \A o \in WebNames : seen[o].visited
                IN  handler' = [handler EXCEPT
                                  ![h].seen = seen,
                                  ![h].pc = IF last THEN "done" ELSE "marshal",
                                  ![h].status = IF last THEN 200 ELSE 0]
    /\ UNCHANGED <<pipeVars, callVars, dataStore, callback, thrown>>

\* a read of the map while an assignment to it is under way: the runtime may
\* notice it and end the process ("concurrent map read and map write",
\* "concurrent map iteration and map write")
mapReadThrows(h) ==
    /\ mode = "web" /\ ~thrown
    /\ handler[h].pc \in {"marshal", "lookup"}
    /\ Writing
    /\ thrown' = TRUE
    /\ UNCHANGED <<pipeVars, callVars, dataStore, callback, handler>>

\* GET /plot?name=...&num=...
plotData(h) ==
    /\ HandlerStarts(h)
    /\ \E name \in WebNames \cup {""}, numStr \in NumStrs :
          handler' = [handler EXCEPT ![h].kind = "plot", ![h].pc = "lookup",
                                     ![h].name = name, ![h].numStr = numStr]
    /\ UNCHANGED <<pipeVars, callVars, dataStore, callback, thrown>>

\* readings, ok = dataStore[name]; and 400 for a name that is empty or has no
\* reading
plotDataLookup(h) ==
    /\ mode = "web" /\ ~thrown
    /\ handler[h].pc = "lookup"
    /\ \E e \in ReadOutcomes(handler[h].name) :
          handler' = [handler EXCEPT ![h] =
             IF handler[h].name = "" \/ ~e.ok \/ Len(e.readings) = 0
             THEN [@ EXCEPT !.pc = "done", !.status = 400]
             ELSE [@ EXCEPT !.pc = "points", !.readings = e.readings]]
    /\ UNCHANGED <<pipeVars, callVars, dataStore, callback, thrown>>

minUint64(x, y) == IF BigLess(x, y) THEN x ELSE y
maxUint64(x, y) == IF BigLess(y, x) THEN x ELSE y

\* x - y of uint64 values
Uint64Sub(x, y) ==
    IF BigLeq(y, x) THEN BigSub(x, y)
    ELSE BigSub(BigAdd(x, BigAdd(MaxUint64, <<1>>)), y)

\* size, rStart and the values that rIndex takes in the loop over the points
PlotIndices(len, numToKeep) ==
    With(minUint64(numToKeep, BigFromInt(len)), LAMBDA size :
    With(maxUint64(<<1>>, Uint64Sub(BigFromInt(len), size)), LAMBDA rStart :
        [index \in 1..BigToInt(size) |-> BigToInt(rStart) - 1 + (index - 1)]))

\* numToKeep, 400 for a num that is no number or 0; then the loop that reads
\* readings[rIndex]; an index outside the slice is a run-time panic
plotDataPoints(h) ==
    /\ mode = "web" /\ ~thrown
    /\ handler[h].pc = "points"
    /\ LET u   == ParseUint(handler[h].numStr)
           bad == handler[h].numStr # << >> /\ (u.err # "nil" \/ u.val = << >>)
           ix  == PlotIndices(Len(handler[h].readings),
                              IF handler[h].numStr = << >> THEN MaxUint64 ELSE u.val)
       IN  handler' = [handler EXCEPT ![h] =
              IF bad THEN [@ EXCEPT !.pc = "done", !.status = 400]
              ELSE IF \E i \in DOMAIN ix : ix[i] >= Len(handler[h].readings)
              THEN [@ EXCEPT !.pc = "panic", !.read = ix]
              ELSE [@ EXCEPT !.pc = "done", !.status = 200, !.read = ix]]
    /\ UNCHANGED <<pipeVars, callVars, dataStore, callback, thrown>>

NextWeb ==
    \/ webOnMessageUndecoded
    \/ webOnMessageReceived
    \/ storeLookup
    \/ storeInsertBegin
    \/ storeInsertEnd
    \/ storeAppendBegin
    \/ storeAppendEnd
    \/ \E h \in Handlers :
          \/ currentData(h)
          \/ currentDataVisit(h)
          \/ mapReadThrows(h)
          \/ plotData(h)
          \/ plotDataLookup(h)
          \/ plotDataPoints(h)

SpecWeb == InitWeb /\ [][NextWeb]_vars

(***************************************************************************)
(* Properties of batching, writing and answering (Spec, FairSpec).         *)
(***************************************************************************)
\* the batch of slot r that is being handed to influxClient.Write
WrittenBatch(r) == slot[r].writes[Len(slot[r].writes)]

BuildErrorsLogged(r) == {i \in DOMAIN slot[r].errs : slot[r].errs[i].kind = "build"}

\* C1: when exactly one reading k of an event of N readings fails point
\* construction, the batch handed to the write has exactly N-1 entries, none
\* of them standing for reading k, and exactly one build error is logged, for
\* reading k.
C1_BatchOmitsFailedReading ==
    \A r \in Slots :
        LET ev     == slot[r].event
            failed == {k \in DOMAIN ev : ev[k].name = ""}
        IN  slot[r].wpc = "writing" /\ Cardinality(failed) = 1 =>
               /\ Len(WrittenBatch(r).points) = Len(ev) - 1
               /\ \A i \in DOMAIN WrittenBatch(r).points : ~WrittenBatch(r).points[i].nil
               /\ Cardinality(BuildErrorsLogged(r)) = 1
               /\ \A i \in BuildErrorsLogged(r) : slot[r].errs[i].k \in failed

\* C2 as stated: for a decoded POSTed event the 200 has been written by the
\* time its write is attempted, in every interleaving.
C2_AckBeforeWriteAttempt ==
    \A r \in Slots :
        mode = "http" /\ slot[r].decoded /\ Len(slot[r].writes) > 0 =>
            slot[r].resp.status = 200

\* C2: for a decoded POSTed event the goroutine is started before the 200 is
\* written and the 200 never waits for it: wherever the goroutine is, the
\* handler can write its 200, and 200 is what it writes.
C2_AckNeverWaitsForWrite ==
    \A r \in Slots :
        mode = "http" /\ slot[r].decoded =>
            /\ slot[r].wpc # "none"
            /\ slot[r].hpc = "ack" => ENABLED readingDataAck(r)
            /\ slot[r].hpc = "done" => slot[r].resp = [status |-> 200, allow |-> ""]

\* the write of an event has returned and its 200 is still to be written
C2_WriteDoneBeforeAck ==
    /\ mode = "http"
    /\ slot[1].decoded /\ slot[1].hpc = "ack" /\ slot[1].resp.status = 0
    /\ slot[1].wpc = "done" /\ Len(slot[1].results) = 1

\* the handler of slot r has returned, or can return without anything else
\* happening first
HandlerCanFinish(r) ==
    \/ slot[r].hpc = "done"
    \/ ENABLED readingDataAck(r)
    \/ ENABLED sendToInfluxDBNext(r)

\* a later request or message can be taken now (one call of the pipeline
\* function is modelled, so there is no later one to look at)
LaterAccepted(q) ==
    \/ mode = "sdk"
    \/ ENABLED readingDataGo(q)
    \/ ENABLED onMessageReceived(q)

\* C3 as stated: in every entry point, while a write is suspended its handler
\* has returned or can return, and a later event can be accepted.
C3_BlockedWriteNeverHoldsHandler ==
    \A r \in Slots :
        slot[r].wpc = "writing" =>
            /\ HandlerCanFinish(r)
            /\ \A q \in Slots : q > r /\ slot[q].hpc = "idle" /\ slot[q - 1].hpc # "idle"
                                   => LaterAccepted(q)

\* C3: that holds in the HTTP entry point, whose write runs in a goroutine of
\* its own; in the pipeline function and in the MQTT subscriber the write
\* runs in the handler, which cannot return while the write is suspended.
C3_OnlyHttpWriteLeavesHandlerFree ==
    \A r \in Slots :
        slot[r].wpc = "writing" =>
            /\ HandlerCanFinish(r) <=> mode = "http"
            /\ mode = "http" =>
                  /\ WriterUnit(r) # HandlerUnit(r)
                  /\ \A q \in Slots :
                        q > r /\ slot[q].hpc = "idle" /\ slot[q - 1].hpc # "idle"
                           => LaterAccepted(q)

\* the first event's write is suspended, its handler has answered, and a
\* later event has been accepted and answered 200
C3_LaterEventAckedDuringWrite ==
    /\ mode = "http"
    /\ slot[1].wpc = "writing" /\ slot[1].hpc = "done"
    /\ slot[2].decoded /\ slot[2].resp.status = 200

\* C4: for each of two POSTed events decoded while the other is in flight,
\* under fair scheduling of the goroutines influxClient.Write is eventually
\* called with its batch.
C4_EachDecodedEventIsWritten ==
    \A r \in Slots :
        (mode = "http" /\ slot[r].decoded) ~> (Len(slot[r].writes) = 1)

\* two decoded events whose writes are both in flight
C4_TwoWritesInFlight ==
    /\ mode = "http"
    /\ slot[1].decoded /\ slot[2].decoded
    /\ slot[1].wpc = "writing" /\ slot[2].wpc = "writing"

\* C5: for every accepted event the write is called exactly once, and no
\* more once it has returned, whatever it returned: when the goroutine, the
\* message callback or the pipeline function has stopped, as many writes
\* were called and have returned as events were accepted.
C5_OneWritePerAcceptedEvent ==
    \A r \in Slots :
        slot[r].wpc \in {"done", "panic"} \/ (mode = "sdk" /\ slot[r].hpc = "done") =>
            /\ Len(slot[r].writes) = slot[r].accepted
            /\ Len(slot[r].results) = slot[r].accepted

\* C6: once an event is decoded and handed on, the HTTP handler answers 200
\* and the pipeline function returns (true, nil), whatever the writes
\* returned, and an answer once given is never changed.
C6_SuccessWhateverTheWrite ==
    /\ [](\A r \in Slots :
            /\ mode = "http" /\ slot[r].decoded /\ slot[r].hpc = "done"
                  => slot[r].resp = [status |-> 200, allow |-> ""]
            /\ mode = "sdk" /\ slot[r].ret.returned /\ Len(slot[r].params) >= 1
                  => slot[r].ret.ok /\ slot[r].ret.err = "nil")
    /\ [][\A r \in Slots :
            /\ slot[r].resp # NoResp => slot'[r].resp = slot[r].resp
            /\ slot[r].ret.returned => slot'[r].ret = slot[r].ret]_vars

\* a 200 stands although the event's write returned an error
C6_AckedAndWriteFailed ==
    /\ mode = "http"
    /\ slot[1].resp.status = 200
    /\ slot[1].results = <<"err">>

\* C8: every point built from a reading has the reading's device as its
\* measurement, exactly the tag id = reading.id, exactly one field, named
\* reading.name; the reading (sensorA, temp, r1, "23", 1000) gives
\* (sensorA, {id: r1}, {temp: Int 23}, (1, 0)); in every entry point.
C8_PointOfReading ==
    \A r \in Slots :
        slot[r].wpc \in {"write", "writing"} /\ ~slot[r].bp.nil =>
            \A k \in DOMAIN slot[r].bp.points :
                LET pt == slot[r].bp.points[k]
                    rd == slot[r].event[k]
                IN  ~pt.nil =>
                       /\ pt.measurement = rd.device
                       /\ pt.tags = {<<"id", rd.id>>}
                       /\ Cardinality(pt.fields) = 1
                       /\ \A f \in pt.fields : f[1] = rd.name
                       /\ rd = ReadingTemp =>
                             /\ pt.fields = {<<"temp", [type |-> "int", val |-> I64OfInt(23)]>>}
                             /\ pt.time = <<1, 0>>

(***************************************************************************)
(* Properties of the origin conversion (SpecTime).                         *)
(***************************************************************************)
\* C7: the time given to the point of a reading of origin o >= 0 is
\* (o div 1000) seconds and (o mod 1000) * 1000000 nanoseconds.
C7_MillisToSecNsec ==
    stamp.by # "none" =>
        stamp.t = <<origin \div 1000, (origin % 1000) * 1000000>>

(***************************************************************************)
(* Properties of parseValueType and the type switch (SpecInfer).           *)
(***************************************************************************)
\* C9: a raw value that is a spelling of true (of false) in any letter case
\* with white space around it is inferred as the boolean true (false), and
\* the field written is that boolean.
C9_BoolForms ==
    inferred.by # "none" =>
        \A x \in BoolSamples :
            valueStr \in Padded({x[1]}) =>
                /\ inferred.parsed.typeStr = boolType
                /\ inferred.parsed.boolVal = x[2]
                /\ inferred.field = [type |-> "bool", val |-> x[2]]

\* " True " has been inferred by the pipeline function's parseValueType
C9_PaddedTrueInferred ==
    /\ inferred.by = "base64"
    /\ valueStr = <<" ", "T", "r", "u", "e", " ">>
    /\ inferred.parsed.typeStr = boolType

\* C10: a raw value that is a base-10 numeral of a signed 64-bit integer with
\* white space around it is inferred as an integer of exactly that value, and
\* the field written is that integer, not the string.
C10_IntForms ==
    inferred.by # "none" =>
        \A x \in IntSamples :
            valueStr \in Padded({x[1]}) =>
                /\ inferred.parsed.typeStr = intType
                /\ inferred.parsed.intVal = x[2]
                /\ inferred.field = [type |-> "int", val |-> x[2]]

\* " -7 " has been inferred by the pipeline function's parseValueType
C10_PaddedMinusSevenInferred ==
    /\ inferred.by = "base64"
    /\ valueStr = <<" ", "-", "7", " ">>
    /\ inferred.field = [type |-> "int", val |-> I64OfInt(-7)]

\* C11: under the base64 policy a raw value that is no boolean form and no
\* integer is a float exactly when the string as it was given (not trimmed,
\* not lower-cased) is standard base64 of exactly 4 or exactly 8 bytes, and
\* the value is the big-endian IEEE-754 single or double those bytes encode;
\* base64 of any other length is not a float.
C11_Base64FloatRule ==
    (mode = "sdk" /\ inferred.by = "base64") =>
        LET pv   == inferred.parsed
            data == Base64Decode(valueStr)
        IN  /\ \A x \in Base64Floats :
                  valueStr = x[1] =>
                      /\ pv.typeStr = floatType /\ pv.floatVal = x[2]
                      /\ inferred.field = [type |-> "float", val |-> x[2]]
            /\ pv.typeStr = floatType => valueStr \in {x[1] : x \in Base64Floats}
            /\ pv.typeStr = floatType <=>
                  /\ ParseBoolInt(valueStr).typeStr = "none"
                  /\ data.ok /\ Len(data.bytes) \in {4, 8}

\* the 4 bytes 3F C0 00 00 were given in base64 and 1.5 was inferred
C11_Base64SingleInferred ==
    /\ mode = "sdk" /\ inferred.by = "base64"
    /\ valueStr = <<"P","8","A","A","A","A","=","=">>
    /\ inferred.field = [type |-> "float", val |-> Finite(FALSE, <<3>>, -1)]

\* C12: a raw value that no boolean, integer or float rule matches ("abc",
\* "", "1.2.3", with or without white space around it) is a string, and the
\* field value written is the raw string as it was given, character for
\* character, not its trimmed or lower-cased copy.
C12_StrKeepsRawValue ==
    inferred.by # "none" =>
        /\ \A l \in Pads, c \in StrSamples, r \in Pads :
              valueStr = l \o c \o r =>
                  /\ inferred.parsed.typeStr = stringType
                  /\ inferred.field = [type |-> "string", val |-> valueStr]
        /\ inferred.field.type = "string" => inferred.field.val = valueStr

\* " abc<TAB>" was given and written as it is
C12_PaddedAbcKept ==
    /\ inferred.by # "none"
    /\ valueStr = <<" ", "a", "b", "c", "\t">>
    /\ inferred.field = [type |-> "string", val |-> <<" ", "a", "b", "c", "\t">>]

MaxInt64 == I64(FALSE, BigSub(TwoTo63, <<1>>))
MinInt64 == I64(TRUE, TwoTo63)

\* the four types and the field the type switch writes for each
FieldOfType(pv, raw) ==
    CASE pv.typeStr = boolType   -> [type |-> "bool",   val |-> pv.boolVal]
      [] pv.typeStr = intType    -> [type |-> "int",    val |-> pv.intVal]
      [] pv.typeStr = floatType  -> [type |-> "float",  val |-> pv.floatVal]
      [] pv.typeStr = stringType -> [type |-> "string", val |-> raw]
      [] OTHER                   -> [type |-> "none",   val |-> FALSE]

\* C13 as stated: inference returns exactly one of the four types for every
\* input, the value slots of the other three types are left at their zero
\* values, and the type switch writes exactly one field.
C13_OtherSlotsZero ==
    inferred.by # "none" =>
        LET pv == inferred.parsed
        IN  /\ pv.typeStr \in {boolType, intType, floatType, stringType}
            /\ inferred.field = FieldOfType(pv, valueStr)
            /\ pv.typeStr # boolType  => pv.boolVal = FALSE
            /\ pv.typeStr # intType   => pv.intVal = I64Zero
            /\ pv.typeStr # floatType => pv.floatVal = FloatZero

\* C13 amended: inference returns exactly one of the four types for every
\* input and the type switch writes exactly one field, from the slot of that
\* type.  The other slots are zero except for what a failed conversion left
\* behind: intVal holds the clamped bound of int64 after a numeral out of
\* range, floatVal holds an infinity after a decimal out of range.
C13_OneTypeOneField ==
    inferred.by # "none" =>
        LET pv == inferred.parsed
        IN  /\ pv.typeStr \in {boolType, intType, floatType, stringType}
            /\ inferred.field = FieldOfType(pv, valueStr)
            /\ pv.typeStr # boolType  => pv.boolVal = FALSE
            /\ pv.typeStr = boolType  => pv.intVal = I64Zero /\ pv.floatVal = FloatZero
            /\ pv.typeStr = intType   => pv.floatVal = FloatZero
            /\ pv.typeStr # intType   => pv.intVal \in {I64Zero, MaxInt64, MinInt64}
            /\ pv.typeStr # floatType => pv.floatVal \in {FloatZero, FloatInf(FALSE), FloatInf(TRUE)}

\* 2^63 was given to the decimal policy: a float, with the clamped int64
\* bound left in intVal
C13_FloatWithClampedInt ==
    /\ inferred.by = "decimal"
    /\ valueStr = <<"9","2","2","3","3","7","2","0","3","6","8","5","4","7","7","5","8","0","8">>
    /\ inferred.field = [type |-> "float", val |-> Finite(FALSE, <<1>>, 63)]
    /\ inferred.parsed.intVal = MaxInt64

BoolForms == {<<"t","r","u","e">>, <<"f","a","l","s","e">>}

\* C14: the rules are tried in the order boolean, integer, float, string and
\* the first that matches decides: a value that an earlier rule matches is
\* never given the type of a later rule; under the decimal policy "42" is a
\* well-formed float too and is an integer all the same.
C14_FirstRuleDecides ==
    inferred.by # "none" =>
        LET fixedStr == TrimSpace(ToLower(valueStr))
            t        == inferred.parsed.typeStr
            isInt    == ParseInt(fixedStr).err = "nil"
            isFloat  == IF inferred.by = "decimal" THEN ParseFloat(fixedStr).err = "nil"
                        ELSE /\ Base64Decode(valueStr).ok
                             /\ Len(Base64Decode(valueStr).bytes) \in {4, 8}
        IN  /\ t = boolType   <=> fixedStr \in BoolForms
            /\ t = intType    <=> fixedStr \notin BoolForms /\ isInt
            /\ t = floatType  <=> fixedStr \notin BoolForms /\ ~isInt /\ isFloat
            /\ t = stringType <=> fixedStr \notin BoolForms /\ ~isInt /\ ~isFloat
            /\ \A l \in Pads, x \in IntSamples, r \in Pads :
                  (inferred.by = "decimal" /\ valueStr = l \o x[1] \o r) =>
                      isFloat /\ inferred.field = [type |-> "int", val |-> x[2]]

\* "42" was given to the decimal policy, whose float rule accepts it as well,
\* and the integer 42 was inferred
C14_FortyTwoIsInt ==
    /\ inferred.by = "decimal"
    /\ valueStr = <<"4","2">>
    /\ ParseFloat(valueStr).err = "nil"
    /\ inferred.field = [type |-> "int", val |-> I64OfInt(42)]

\* C20: the base64 policy of the SDK pipeline and the decimal policy of the
\* HTTP and MQTT entry points return the same type and value for every input
\* that either of them takes for a boolean or an integer; they differ only at
\* the float step, where one says float and the other string: "1.5" is the
\* float 1.5 under the decimal policy and the string "1.5" under the base64
\* policy.
C20_PoliciesDifferOnlyAtFloat ==
    inferred.by # "none" =>
        LET mine  == inferred.parsed
            other == IF inferred.by = "base64" THEN parseValueTypeDecimal(valueStr)
                     ELSE parseValueType(valueStr)
        IN  /\ (mine.typeStr \in {boolType, intType} \/ other.typeStr \in {boolType, intType})
                  => /\ other = mine
                     /\ FieldValue(other, valueStr) = inferred.field
            /\ other.typeStr # mine.typeStr
                  => {mine.typeStr, other.typeStr} = {floatType, stringType}
            /\ valueStr = <<"1",".","5">>
                  => inferred.field =
                        IF inferred.by = "decimal"
                        THEN [type |-> "float", val |-> Finite(FALSE, <<3>>, -1)]
                        ELSE [type |-> "string", val |-> <<"1",".","5">>]

\* "1.5" was given to the base64 policy and came out as the string "1.5",
\* where the decimal policy reads the float 1.5
C20_OneAndAHalfIsStrUnderBase64 ==
    /\ inferred.by = "base64"
    /\ valueStr = <<"1",".","5">>
    /\ inferred.field = [type |-> "string", val |-> <<"1",".","5">>]
    /\ parseValueTypeDecimal(valueStr).floatVal = Finite(FALSE, <<3>>, -1)

\* the event of slot r has a reading for which NewPoint fails
HasBuildFailure(r) ==
    \E k \in DOMAIN slot[r].event : points[slot[r].event[k]].err

\* C15: a point-construction failure for one reading never aborts the event:
\* once the loop over the readings has run, every reading, those after the
\* failed one included, has been processed into the batch, and the batch goes
\* on to the write.
C15_BuildFailureNeverAborts ==
    \A r \in Slots :
        (HasBuildFailure(r) /\ slot[r].wpc \notin {"none", "start"}) =>
            /\ slot[r].wpc \in {"write", "writing", "done"}
            /\ ~slot[r].bp.nil
            /\ Len(slot[r].bp.points) = Len(slot[r].event)
            /\ \A k \in DOMAIN slot[r].event :
                  slot[r].bp.points[k] = points[slot[r].event[k]].pt

\* C16: within one event, the points of the batch passed to the write are in
\* the order of the readings they were built from: entry k of the batch is
\* what was built from reading k of the event.
C16_BatchInReadingOrder ==
    \A r \in Slots :
        (slot[r].wpc \in {"write", "writing", "done"} /\ ~slot[r].bp.nil) =>
            /\ slot[r].bp.points =
                  [k \in 1..Len(slot[r].event) |-> points[slot[r].event[k]].pt]
            /\ slot[r].wpc \in {"writing", "done"} => WrittenBatch(r) = slot[r].bp

\* an event with the readings of sensorA and then of sensorB is being written,
\* its batch holding sensorA's point and then sensorB's
C16_TwoPointsWrittenInOrder ==
    \E r \in Slots :
        /\ slot[r].wpc = "writing"
        /\ slot[r].event = <<ReadingTemp, ReadingHum>>
        /\ Len(WrittenBatch(r).points) = 2
        /\ WrittenBatch(r).points[1] = points[ReadingTemp].pt
        /\ WrittenBatch(r).points[2] = points[ReadingHum].pt
        /\ WrittenBatch(r).points[1].measurement = "sensorA"
        /\ WrittenBatch(r).points[2].measurement = "sensorB"

\* what -- "ack" or "write" -- happened for request a before it did for b
Before(what, a, b) ==
    \E i, j \in DOMAIN wire :
        i < j /\ wire[i] = <<what, a>> /\ wire[j] = <<what, b>>

\* C17: the HTTP entry point orders nothing across events: when two events
\* were acknowledged, A then B, and both goroutines hold their batch, the
\* write of A and the write of B can each be the next one invoked.
C17_AckOrderDecidesNoWriteOrder ==
    \A a, b \in Slots :
        (/\ mode = "http" /\ ~crashed
         /\ Before("ack", a, b)
         /\ slot[a].wpc = "write" /\ slot[b].wpc = "write") =>
            /\ ENABLED sendEventWrite(a)
            /\ ENABLED sendEventWrite(b)

\* A was acknowledged before B, and the write of B was invoked before the
\* write of A
C17_WritesInvokedAgainstAckOrder ==
    /\ mode = "http"
    /\ wire = << <<"ack", 1>>, <<"ack", 2>>, <<"write", 2>>, <<"write", 1>> >>
    /\ Before("ack", 1, 2) /\ Before("write", 2, 1)

\* what the readings of the event of request r were built into
OwnPoints(r) == {points[slot[r].event[k]].pt : k \in DOMAIN slot[r].event}

BatchPoints(bp) == {bp.points[k] : k \in DOMAIN bp.points}

\* C18: whatever the interleaving of the writers, the batch written for an
\* event holds only what was built from that event's own readings, one entry
\* per reading, and a step that changes the batch or the writes of one event
\* changes nothing of any other event.
C18_BatchesNeverMixed ==
    /\ [](\A r \in Slots :
             (slot[r].wpc \in {"writing", "done"} /\ ~WrittenBatch(r).nil) =>
                 /\ BatchPoints(WrittenBatch(r)) \subseteq OwnPoints(r)
                 /\ Len(WrittenBatch(r).points) = Len(slot[r].event))
    /\ [][\A r \in Slots :
             (slot'[r].bp # slot[r].bp \/ slot'[r].writes # slot[r].writes) =>
                 \A q \in Slots \ {r} : slot'[q] = slot[q]]_vars

\* two goroutines are inside the write at the same time, one with the batch
\* of sensorA's reading only, the other with the batch of sensorB's only
C18_TwoWritersOwnBatches ==
    /\ mode = "http"
    /\ slot[1].wpc = "writing" /\ slot[2].wpc = "writing"
    /\ slot[1].event = <<ReadingTemp>> /\ slot[2].event = <<ReadingHum>>
    /\ BatchPoints(WrittenBatch(1)) = {points[ReadingTemp].pt}
    /\ BatchPoints(WrittenBatch(2)) = {points[ReadingHum].pt}
    /\ points[ReadingTemp].pt # points[ReadingHum].pt

\* request r carried a payload that did not decode as an event (the handler
\* has returned; a method is recorded only when it is refused)
DecodeFailed(r) ==
    /\ mode \in {"http", "mqtt"}
    /\ slot[r].hpc = "done" /\ ~slot[r].decoded /\ slot[r].method = << >>

NeverWritten(r) ==
    /\ slot[r].wpc = "none"
    /\ slot[r].writes = << >> /\ slot[r].results = << >>
    /\ \A i \in DOMAIN wire : wire[i] # <<"write", r>>

\* C19 as stated: a payload that does not decode is answered with status 400,
\* and no writer is started, no batch is made and no write is issued for it,
\* in the HTTP server and in the MQTT subscriber alike.
C19_UndecodedIs400AndNoBatch ==
    \A r \in Slots :
        DecodeFailed(r) =>
            /\ slot[r].resp.status = 400
            /\ slot[r].bp.nil
            /\ NeverWritten(r)

\* C19, amended: for a payload that does not decode no reading is batched, no
\* writer runs and no write is issued, at any later time.  The HTTP server
\* answers 400 and makes no batch; the MQTT subscriber answers nothing, prints
\* the error, and is left with the empty batch it made before decoding.
C19_UndecodedNeverReachesWrite ==
    \A r \in Slots :
        DecodeFailed(r) =>
            /\ NeverWritten(r)
            /\ slot[r].event = << >> /\ slot[r].accepted = 0
            /\ mode = "http" =>
                  /\ slot[r].resp = [status |-> 400, allow |-> ""]
                  /\ slot[r].bp.nil
                  /\ slot[r].errs = << >>
            /\ mode = "mqtt" =>
                  /\ slot[r].resp = NoResp
                  /\ slot[r].errs = <<[kind |-> "decode", k |-> 0]>>
                  /\ ~slot[r].bp.nil /\ slot[r].bp.points = << >>

\* the subscriber printed the decode error of its first message, wrote
\* nothing for it, and then took a second message and wrote its batch
C19_SubscriberGoesOnAfterUndecoded ==
    /\ mode = "mqtt"
    /\ DecodeFailed(1)
    /\ slot[1].errs = <<[kind |-> "decode", k |-> 0]>>
    /\ slot[2].decoded /\ slot[2].wpc = "done"
    /\ wire = << <<"write", 2>> >>

(***************************************************************************)
(* The origin conversion compared across the entry points (SpecTime).      *)
(***************************************************************************)
\* C21: for the same origin the SDK pipeline function, the HTTP server and
\* the MQTT subscriber compute the same (seconds, nanoseconds): the time an
\* entry point has given to the point is the time each of the three gives.
C21_SameStampInEveryEntryPoint ==
    stamp.by # "none" =>
        /\ stamp.t = unixTimeSDK(origin)
        /\ stamp.t = unixTimeHTTP(origin)
        /\ stamp.t = unixTimeMQTT(origin)

\* C24: for every origin, negative ones included, the time computed has
\* 0 <= nanoseconds <= 999999999 and seconds = floor(origin / 1000), and
\* seconds * 1000 + nanoseconds / 1000000 is the origin again.
C24_StampIsOriginMillis ==
    stamp.by # "none" =>
        /\ 0 <= stamp.t[2] /\ stamp.t[2] <= 999999999
        /\ stamp.t[1] = origin \div 1000
        /\ stamp.t[1] * 1000 + stamp.t[2] \div 1000000 = origin

(***************************************************************************)
(* The HTTP entry point under load (Spec).                                 *)
(***************************************************************************)
\* the writer tasks that were started and whose write has not returned
Outstanding == {q \in Slots : slot[q].wpc \in {"start", "write", "writing"}}

\* C22: the HTTP server has no backpressure: whenever a request arrives, the
\* handler can decode its event and start a writer task for it, however many
\* writer tasks are outstanding; every number of events up to MaxReq can be
\* acknowledged with all their writes unfinished.
C22_AcceptNeverWaitsForWrites ==
    mode = "http" /\ ~crashed =>
        \A r \in Slots :
            slot[r].hpc = "idle" /\ (r = 1 \/ slot[r - 1].hpc # "idle") =>
                ENABLED readingDataGo(r)

\* every request of the run is acknowledged and the write of none has returned
C22_AllAckedNoWriteDone ==
    /\ mode = "http"
    /\ \A r \in Slots : slot[r].resp.status = 200 /\ slot[r].hpc = "done"
    /\ Outstanding = Slots
    /\ Cardinality(Outstanding) = MaxReq

\* C23: a request whose method is not POST, in any letter case, is answered
\* 405 with Allow: POST; its body is not decoded, no writer task is started
\* and no write is issued for it; no spelling of POST is ever refused.
C23_OnlyPostReachesCore ==
    mode = "http" =>
        \A r \in Slots :
            slot[r].method # << >> =>
                /\ \A m \in Methods :
                      ToUpper(m) = <<"P","O","S","T">> => slot[r].method # m
                /\ slot[r].hpc = "done"
                /\ slot[r].resp = [status |-> 405, allow |-> "POST"]
                /\ ~slot[r].decoded
                /\ slot[r].event = << >> /\ slot[r].accepted = 0
                /\ slot[r].bp.nil
                /\ NeverWritten(r)

\* a GET was refused, and the POST after it was decoded and its batch written
C23_GetRefusedPostWritten ==
    /\ mode = "http"
    /\ slot[1].method = <<"G","E","T">>
    /\ slot[1].resp.status = 405
    /\ slot[2].decoded /\ slot[2].resp.status = 200
    /\ Len(slot[2].writes) = 1 /\ Len(slot[2].results) = 1

(***************************************************************************)
(* Numerals outside the int64 range (SpecInfer).                           *)
(***************************************************************************)
\* C25: a decimal integer string whose value is outside [-2^63, 2^63 - 1] is
\* never inferred as an integer; it goes on to the later rules (a string
\* under the base64 policy, the nearest double under the decimal policy), and
\* the field written for it is not the clamped bound that the integer slot
\* holds.
C25_OutOfRangeNeverInt ==
    inferred.by # "none" =>
        \A x \in OutOfRangeSamples :
            valueStr \in Padded({x[1]}) =>
                /\ inferred.parsed.typeStr # intType
                /\ inferred.field.type # "int"
                /\ inferred.parsed.intVal = x[2]
                /\ inferred.by = "base64" =>
                      inferred.field = [type |-> "string", val |-> valueStr]
                /\ inferred.by = "decimal" =>
                      inferred.field = [type |-> "float", val |-> x[3]]

\* -2^63 - 1 was given to the pipeline function's parseValueType: a string,
\* with the lower bound of int64 left in the integer slot
C25_BelowMinIsStr ==
    /\ inferred.by = "base64"
    /\ valueStr = <<"-","9","2","2","3","3","7","2","0","3","6","8","5","4","7","7","5","8","0","9">>
    /\ inferred.field.type = "string"
    /\ inferred.parsed.intVal = I64(TRUE, TwoTo63)

(***************************************************************************)
(* The pipeline function of cmd/main.go (Spec).                            *)
(***************************************************************************)
\* the parameters that are Events, in parameter order
EventParams(ps) == SelectSeq(ps, LAMBDA p : p.isEvent)

\* the batch that the loop over the readings of ev builds
BatchOf(ev) == AddReadings(points, ev, 1, NewBatchPoints(precision).bp, << >>).bp

BatchErrorLogged(r) == \E i \in DOMAIN slot[r].errs : slot[r].errs[i].kind = "batch"

\* C26: the pipeline function ends by returning; called with no parameter
\* it returns (false, "No Data Received") and has written nothing; called
\* with parameters it returns (true, nil), and then it has called the write
\* once for each parameter that is an Event, in parameter order, with that
\* event's batch, every call has returned, and the other parameters were
\* skipped.
C26_PipelineFunctionContract ==
    mode = "sdk" =>
        /\ slot[1].wpc # "panic"
        /\ slot[1].ret.returned =>
              IF slot[1].params = << >>
              THEN /\ slot[1].ret = [returned |-> TRUE, ok |-> FALSE,
                                     err |-> "No Data Received"]
                   /\ slot[1].writes = << >>
              ELSE /\ slot[1].ret = [returned |-> TRUE, ok |-> TRUE, err |-> "nil"]
                   /\ Len(slot[1].writes) = Len(EventParams(slot[1].params))
                   /\ Len(slot[1].results) = Len(slot[1].writes)
                   /\ \A i \in DOMAIN slot[1].writes :
                         slot[1].writes[i] = BatchOf(EventParams(slot[1].params)[i].event)

\* C27: when NewBatchPoints fails for an event of the pipeline function, the
\* failure is logged and the missing batch is not used: no AddPoint on it, no
\* write with it, and the function does not end in a panic.
C27_MissingBatchNeverUsed ==
    mode = "sdk" =>
        \A r \in Slots :
            BatchErrorLogged(r) =>
                /\ slot[r].wpc # "panic"
                /\ ~crashed
                /\ \A i \in DOMAIN slot[r].writes : ~slot[r].writes[i].nil

(***************************************************************************)
(* The write precision of the batch configuration (Spec).                  *)
(***************************************************************************)
FourUnits == {"ns", "us", "ms", "s"}

\* C28: validation accepts a write precision only when it is one of "ns",
\* "us", "ms", "s", so the batch configuration with which an event is
\* batched always carries one of these four units.
C28_PrecisionIsOneOfFourUnits ==
    \A r \in Slots :
        slot[r].accepted > 0 =>
            /\ precision \in FourUnits
            /\ \A p \in PrecisionInputs : validDBPrecision(p) => p \in FourUnits

(***************************************************************************)
(* Properties of the plotting web server (SpecWeb).                        *)
(***************************************************************************)
\* C29: for a data source with L >= 1 readings and a num that is absent or
\* at least 1, plotData reads exactly the min(num, L) most recent readings,
\* the indices L - min(num, L) to L - 1 in the order of arrival, and no index
\* outside 0..L-1.
C29_PlotReadsMostRecent ==
    \A h \in Handlers :
        /\ handler[h].kind = "plot"
        /\ handler[h].pc = "panic" \/ (handler[h].pc = "done" /\ handler[h].status = 200)
        => LET L   == Len(handler[h].readings)
               num == IF handler[h].numStr = << >> THEN L
                      ELSE BigToInt(ParseUint(handler[h].numStr).val)
               n   == IF num < L THEN num ELSE L
           IN  /\ handler[h].pc = "done"
               /\ handler[h].read = [i \in 1..n |-> L - n + (i - 1)]
               /\ \A i \in DOMAIN handler[h].read :
                     handler[h].read[i] >= 0 /\ handler[h].read[i] <= L - 1

\* the callback is in the middle of storing the readings of a message
Updating == callback.pc # "idle"

\* handler h has read a part of dataStore and has more of it to read
ReadingStore(h) ==
    /\ handler[h].pc = "marshal"
    /\ \E n \in WebNames : handler[h].seen[n].visited

IsPrefix(a, b) == Len(a) <= Len(b) /\ a = SubSeq(b, 1, Len(a))

\* the readings of name received so far, the one being appended included
Received(name) ==
    IF callback.pc = "appending" /\ Cur.name = name
    THEN Append(dataStore[name].readings, Cur)
    ELSE dataStore[name].readings

\* C30: the accesses to dataStore exclude each other: no handler is reading
\* dataStore while the message callback is in the middle of storing readings,
\* no access ends the process, and what a handler has read for a name is a
\* prefix of the readings received for that name.
C30_DataStoreAccessExclusive ==
    /\ ~thrown
    /\ \A h \in Handlers : ~(ReadingStore(h) /\ Updating)
    /\ \A h \in Handlers :
          /\ \A n \in WebNames : IsPrefix(handler[h].seen[n].readings, Received(n))
          /\ handler[h].name \in WebNames =>
                IsPrefix(handler[h].readings, Received(handler[h].name))

====
